---------------------------- MODULE Spec2Model ----------------------------
(***************************************************************************)
(* A model of the mob chat relay: the reactor of src/src/server.rs         *)
(* (Server: accept, readable fan-out, deferred reset, end-of-tick sweep)   *)
(* driving the per-socket state machine of src/src/connection.rs           *)
(* (Connection: length-prefixed framing, read/write continuations,         *)
(* outbound queue).  Sockets, the accept backlog and the readiness source  *)
(* are the environment.                                                    *)
(***************************************************************************)
EXTENDS Integers, Sequences, FiniteSets, TLC

(***************************************************************************)
(* Bounds of the model.                                                    *)
(***************************************************************************)
\* Slots of the connection table.  The program sizes the slab at 128
\* (src/src/server.rs:116); the model keeps the same code with fewer slots.
SlabCapacity == 2

\* Client connections that are ever made.
MaxAccepts == 3

\* Frames that all clients together ever write.
MaxFrames == 2

\* Longest payload a client writes.
MaxPayloadLen == 2

\* Most events the readiness source hands over in one poll.
MaxBatch == 2

\* Faults the environment causes in one run: failed accept, register,
\* reregister, read and write calls, short header writes, error events,
\* clients that close, frames the network cuts inside the header or payload.
\* A write that fails because the client has closed is part of that close.
MaxFaults == 1

\* Writes in one run that would block or take only part of the buffer.
MaxStalls == 1

(***************************************************************************)
(* Program constants.                                                      *)
(***************************************************************************)
\* Server::new: token: Token(1)
ListenerToken == 1

\* Server::new: Slab::new_starting_at(Token(2), ..)
FirstConnToken == 2

\* read_message_length / write_message_length: [0u8; 8]
HeaderLen == 8

\* one byte holds 256 values (BigEndian::write_u64 / read_u64)
ByteBase == 256

\* the most messages queued for the client of the monolithic handler
MaxQueued == 3

\* A slab whose tokens start at the listener's.
TokensFromListener == ListenerToken .. (ListenerToken + SlabCapacity - 1)

ConnTokens == FirstConnToken .. (FirstConnToken + SlabCapacity - 1)

(***************************************************************************)
(* Sequences of bytes.                                                     *)
(***************************************************************************)
Min(a, b) == IF a < b THEN a ELSE b

Take(s, n) == SubSeq(s, 1, n)

Drop(s, n) == SubSeq(s, n + 1, Len(s))

\* The element of a set of one element.  Only({F(x) : x \in {e}}) is F(e),
\* with e worked out once.
Only(S) == CHOOSE x \in S : TRUE

\* n shifted right by k bytes.
RECURSIVE ShiftRight(_, _)
ShiftRight(n, k) == IF k = 0 THEN n ELSE ShiftRight(n \div ByteBase, k - 1)

\* BigEndian::write_u64(&mut send_buf, len as u64)
write_u64(n) == [i \in 1..HeaderLen |-> ShiftRight(n, HeaderLen - i) % ByteBase]

\* The number whose big-endian bytes are the first i bytes of buf.
RECURSIVE BigEndian(_, _)
BigEndian(buf, i) ==
    IF i = 0 THEN 0 ELSE BigEndian(buf, i - 1) * ByteBase + buf[i]

\* BigEndian::read_u64(buf.as_ref())
read_u64(buf) == BigEndian(buf, Len(buf))

\* The wire form of one frame: what write_message_length and write_message
\* emit for a buffer, and what client.rs writes.
Encode(payload) == write_u64(Len(payload)) \o payload


(***************************************************************************)
(* Connection (src/src/connection.rs).  A connection is a record; its      *)
(* socket is the record sock[token] of the environment:                    *)
(*   rcvbuf  bytes that arrived and were not read yet                      *)
(*   wire    bytes the client wrote that did not arrive yet                *)
(*   closed  the client closed its end                                     *)
(*   sent    the bytes the server wrote, each with the number of the       *)
(*           send_message call whose buffer it belongs to                  *)
(* A queued buffer likewise carries the number n of its send_message call; *)
(* the code reads only its data.                                           *)
(***************************************************************************)

\* Option<u64>: None is {}, Some(n) is {n}.
None == {}

\* A continuation that keeps one less than the length.
some_less(n) == {n - 1}

Some(n) == {n}

Unwrap(opt) == CHOOSE n \in opt : TRUE

\* Connection::new
ConnectionNew(token) ==
    [ token              |-> token,
      interest           |-> {"hup"},
      send_queue         |-> <<>>,
      read_continuation  |-> None,
      write_continuation |-> FALSE,
      is_reset           |-> FALSE ]

\* A socket fresh from accept.
SocketNew ==
    [ rcvbuf |-> <<>>, wire |-> <<>>, closed |-> FALSE, sent |-> <<>> ]

\* Connection::mark_reset, called by Server::reset_connection.
mark_reset(c) == [c EXCEPT !.is_reset = TRUE]

\* Connection::is_reset, called by Server::ready.
is_reset(c) == c.is_reset

\* The bytes bs as written for send_message call n.
Tagged(n, bs) == [i \in 1..Len(bs) |-> <<n, bs[i]>>]

\* The bytes of a tagged sequence.
Untagged(ts) == [i \in 1..Len(ts) |-> ts[i][2]]

\* sock.write: the socket takes these bytes of buffer n.
Emit(s, n, bs) == [s EXCEPT !.sent = @ \o Tagged(n, bs)]

(***************************************************************************)
(* What one call of sock.write may do, chosen by the environment.          *)
(*   h  the header write: "ok" (all 8 bytes), "wouldblock", "err",         *)
(*      "short" (k < 8 bytes taken), "none" (no header write attempted)    *)
(*   b  the payload write: "ok" (k bytes taken), "wouldblock", "err",      *)
(*      "none" (not attempted)                                             *)
(***************************************************************************)
ShortHeaderLens == {3}

NoWrite == [h |-> "none", b |-> "none", k |-> 0]

WriteOutcomes ==
    {[h |-> x, b |-> "none", k |-> 0] : x \in {"wouldblock", "err"}}
    \cup {[h |-> "short", b |-> "none", k |-> j] : j \in ShortHeaderLens}
    \cup {[h |-> x, b |-> y, k |-> 0] :
              x \in {"ok", "none"}, y \in {"wouldblock", "err"}}
    \cup {[h |-> x, b |-> "ok", k |-> j] :
              x \in {"ok", "none"}, j \in 0..MaxPayloadLen}

\* The outcomes that can happen when connection c writes buffer buf: the
\* header is attempted unless a write continuation is pending, and a write
\* takes no more bytes than it is given.
WriteApplies(c, buf, o) ==
    /\ o \in WriteOutcomes
    /\ (o.h = "none") <=> c.write_continuation
    /\ o.k <= Len(buf.data)

\* Whether outcome o is a failure of the socket.
WriteFault(o) == o.h \in {"err", "short"} \/ o.b = "err"

\* Whether outcome o leaves part of buffer buf unwritten without failing.
WriteStalls(buf, o) ==
    \/ o.h = "wouldblock"
    \/ o.b = "wouldblock"
    \/ o.b = "ok" /\ o.k < Len(buf.data)

\* What the write of buf with outcome o costs the budgets of faults and of
\* stalls.
FaultCost(o) == IF WriteFault(o) THEN 1 ELSE 0

StallCost(buf, o) == IF WriteStalls(buf, o) THEN 1 ELSE 0

\* Connection::write_message_length
write_message_length(c, s, buf, o) ==
    IF c.write_continuation THEN [res |-> "some", s |-> s]
    ELSE LET send_buf == write_u64(Len(buf.data))
         IN CASE o.h = "ok"         -> [res |-> "some", s |-> Emit(s, buf.n, send_buf)]
              [] o.h = "short"      -> [res |-> "err",
                                        s |-> Emit(s, buf.n, Take(send_buf, o.k))]
              [] o.h = "wouldblock" -> [res |-> "none", s |-> s]
              [] OTHER              -> [res |-> "err", s |-> s]

\* A partial write that puts nothing back.
RequeueNothing(queue, buf, n) == queue

\* A partial write that puts the whole buffer back.
RequeueWhole(queue, buf, n) == <<buf>> \o queue

\* write_message, a partial write: put the remaining part back at the front.
RequeueRemaining(queue, buf, n) ==
    <<[buf EXCEPT !.data = Drop(@, n)]>> \o queue

\* Connection::write_message, from the result hdr of write_message_length.
write_payload(c, buf, o, hdr) ==
    LET len == Len(buf.data)
    IN CASE hdr.res = "none" ->
              [res |-> "ok", s |-> hdr.s,
               c |-> [c EXCEPT !.send_queue = <<buf>> \o @]]
         [] hdr.res = "err" ->
              [res |-> "err", s |-> hdr.s, c |-> c]
         [] OTHER ->
              CASE o.b = "ok" ->
                     [res |-> "ok",
                      s |-> Emit(hdr.s, buf.n, Take(buf.data, o.k)),
                      c |-> IF o.k < len
                            THEN [c EXCEPT
                                    !.send_queue = RequeueRemaining(@, buf, o.k),
                                    !.write_continuation = TRUE]
                            ELSE [c EXCEPT !.write_continuation = FALSE]]
                [] o.b = "wouldblock" ->
                     [res |-> "ok", s |-> hdr.s,
                      c |-> [c EXCEPT !.send_queue = <<buf>> \o @,
                                      !.write_continuation = TRUE]]
                [] OTHER ->
                     [res |-> "err", s |-> hdr.s, c |-> c]

\* Connection::write_message
write_message(c, s, buf, o) ==
    Only({write_payload(c, buf, o, hdr) :
             hdr \in {write_message_length(c, s, buf, o)}})

\* A pop that takes the buffer queued last.
pop_back(queue) ==
    [buf |-> queue[Len(queue)], rest |-> SubSeq(queue, 1, Len(queue) - 1)]

\* self.send_queue.pop_front(), on a queue that is not empty: the buffer
\* taken and the queue that is left.
pop_front(queue) == [buf |-> Head(queue), rest |-> Tail(queue)]

\* An update that drops writable interest after every write.
remove_always(c) == [c EXCEPT !.interest = @ \ {"writable"}]

\* An update that never drops writable interest.
remove_never(c) == c

\* writable: if self.send_queue.is_empty() { self.interest.remove(writable) }
remove_writable(c) ==
    IF c.send_queue = <<>> THEN [c EXCEPT !.interest = @ \ {"writable"}] ELSE c

\* Connection::writable
writable(c, s, o) ==
    IF c.send_queue = <<>>
    THEN [res |-> "err", s |-> s, c |-> c]
    ELSE Only({IF w.res = "err" THEN w
               ELSE [w EXCEPT !.c = remove_writable(w.c)] :
               w \in {write_message([c EXCEPT !.send_queue = pop_front(@).rest],
                                    s, pop_front(c.send_queue).buf, o)}})

\* A queue that puts the new message in front.
push_front(queue, message) == <<message>> \o queue

\* send_message: the queue is not empty, so queue the message behind it.
push_back(queue, message) == Append(queue, message)

\* Connection::send_message
send_message(c, s, message, o) ==
    Only({IF w.res = "err" THEN w
          ELSE [w EXCEPT !.c = IF w.c.send_queue # <<>> /\ "writable" \notin w.c.interest
                               THEN [w.c EXCEPT !.interest = @ \cup {"writable"}]
                               ELSE w.c] :
          w \in {IF c.send_queue = <<>>
                 THEN write_message(c, s, message, o)
                 ELSE [res |-> "ok", s |-> s,
                       c |-> [c EXCEPT !.send_queue = push_back(@, message)]]}})

\* The outcomes that can happen when send_message is called on c.
SendApplies(c, message, o) ==
    IF c.send_queue = <<>> THEN WriteApplies(c, message, o) ELSE o = NoWrite

(***************************************************************************)
(* Reading.  sock.read hands over the bytes that arrived, up to the size   *)
(* asked for; with nothing there it reports WouldBlock, or 0 bytes once    *)
(* the client closed.  The environment may make a read fail instead:       *)
(* "herr" the header read, "berr" the payload read.  With "eof" the client *)
(* has closed its end by the time of the read.                             *)
(***************************************************************************)
ReadOutcomes == {"ok", "herr", "berr", "eof"}

\* The socket as the read finds it.
AtRead(s, o) == IF o = "eof" THEN [s EXCEPT !.closed = TRUE] ELSE s

\* A test that takes any number of bytes for a header.
short_is_header(bytes) == FALSE

\* read_message_length: if bytes < 8 { return Err(..) }
is_short(bytes) == bytes < HeaderLen

\* Connection::read_message_length
read_message_length(c, s, o) ==
    IF c.read_continuation # None
    THEN [res |-> "some", len |-> Unwrap(c.read_continuation), s |-> s]
    ELSE IF o = "herr"
    THEN [res |-> "err", len |-> 0, s |-> s]
    ELSE IF s.rcvbuf = <<>> /\ ~s.closed
    THEN [res |-> "none", len |-> 0, s |-> s]
    ELSE LET bytes == Min(HeaderLen, Len(s.rcvbuf))
             buf   == Take(s.rcvbuf, bytes)
             rest  == [s EXCEPT !.rcvbuf = Drop(@, bytes)]
         IN IF is_short(bytes)
            THEN [res |-> "err", len |-> 0, s |-> rest]
            ELSE [res |-> "some", len |-> read_u64(buf), s |-> rest]

\* A length check that takes every frame for empty.
EveryFrameEmpty(msg_len) == msg_len >= 0

\* A length check that lets the empty frame through.
NeverEmptyFrame(msg_len) == FALSE

\* readable: if msg_len == 0 { return Ok(None); }
IsEmptyFrame(msg_len) == msg_len = 0

\* Connection::readable, from the result hdr of read_message_length.
read_payload(c, o, hdr) ==
       CASE hdr.res = "none" ->
              [res |-> "none", msg |-> <<>>, c |-> c, s |-> hdr.s, zero |-> FALSE]
         [] hdr.res = "err" ->
              [res |-> "err", msg |-> <<>>, c |-> c, s |-> hdr.s, zero |-> FALSE]
         [] hdr.res = "some" /\ IsEmptyFrame(hdr.len) ->
              [res |-> "none", msg |-> <<>>, c |-> c, s |-> hdr.s, zero |-> TRUE]
         [] OTHER ->
              LET msg_len == hdr.len
                  avail   == Len(hdr.s.rcvbuf)
                  n       == Min(msg_len, avail)
              IN IF o = "berr"
                 THEN [res |-> "err", msg |-> <<>>, c |-> c, s |-> hdr.s,
                       zero |-> FALSE]
                 ELSE IF avail = 0 /\ ~hdr.s.closed
                 THEN [res |-> "none", msg |-> <<>>,
                       c |-> [c EXCEPT !.read_continuation = Some(msg_len)],
                       s |-> hdr.s, zero |-> FALSE]
                 ELSE IF n < msg_len
                 THEN [res |-> "err", msg |-> <<>>, c |-> c,
                       s |-> [hdr.s EXCEPT !.rcvbuf = Drop(@, n)], zero |-> FALSE]
                 ELSE [res |-> "some", msg |-> Take(hdr.s.rcvbuf, n),
                       c |-> [c EXCEPT !.read_continuation = None],
                       s |-> [hdr.s EXCEPT !.rcvbuf = Drop(@, n)], zero |-> FALSE]

\* Connection::readable
readable(c, s0, o) ==
    Only({read_payload(c, o, hdr) :
             hdr \in {read_message_length(c, AtRead(s0, o), o)}})

(***************************************************************************)
(* Server (src/src/server.rs) and the environment.                         *)
(*   conns         the slab: token -> Connection, for the occupied slots   *)
(*   reset_tokens  Server.reset_tokens                                     *)
(*   shutdown      event_loop.shutdown() was called                        *)
(*   reg           the event loop's registrations: token -> the interest   *)
(*                 registered, and whether the one-shot registration is    *)
(*                 armed                                                   *)
(*   sock          the sockets of the connections in the slab              *)
(*   backlog       client connections waiting to be accepted               *)
(*   pending       the tokens of the current poll whose event is not       *)
(*                 dispatched yet, each with the interest it was polled    *)
(*                 with and its condition: "ready", "error" or "hup"       *)
(*   pc, cur       where the event loop is: "poll" (waiting), "dispatch"   *)
(*                 (between two calls of ready), "reading" (in the loop    *)
(*                 of Server::readable for token cur)                      *)
(* History, read by the properties only:                                   *)
(*   hist          per slot: id, the serial number of the connection in    *)
(*                 it; enq, the messages send_message was called with;     *)
(*                 wfail, whether a write on the connection has failed;    *)
(*                 ins, how many connections were inserted into the slot;  *)
(*                 uses, how many of them were registered                  *)
(*   accepts       client connections made so far                          *)
(*   frames        frames written by clients so far                        *)
(*   faults        faults caused so far                                    *)
(*   stalls        writes stalled so far                                   *)
(*   last          what the last step of the server did                    *)
(*   drain         the readable dispatch that is running or has just       *)
(*                 ended: present, the payloads of the complete non-empty  *)
(*                 frames its receive buffer began with; ahead, those of   *)
(*                 them in front of the first zero-length frame; got, the  *)
(*                 messages Connection::readable has returned in it        *)
(***************************************************************************)
VARIABLES conns, reset_tokens, shutdown, reg, sock, backlog, pending, pc, cur,
          hist, accepts, frames, faults, stalls, last, drain

vars == <<conns, reset_tokens, shutdown, reg, sock, backlog, pending, pc, cur,
          hist, accepts, frames, faults, stalls, last, drain>>

\* The record of a step: the operation, its token, the events it was called
\* with, what it returned, the message read (for a writable event: the bytes
\* written; for the sweep: the reset list it went through), the tokens
\* reset_connection was called with, and whether Server::reregister failed.
Did(op, token, ev, res, msg, bad, lfail) ==
    [op |-> op, token |-> token, ev |-> ev, res |-> res, msg |-> msg,
     bad |-> bad, lfail |-> lfail]

\* Server::find_connection_by_token
find_connection_by_token(cs, token) == cs[token]

\* self.conns.remove(token): the slot is freed.
SlabRemove(f, token) == [t \in (DOMAIN f) \ {token} |-> f[t]]

\* self.conns.contains(token)
SlabContains(cs, token) == token \in DOMAIN cs

\* f with slot token set to v (occupying it if it was free).
SlabPut(f, token, v) ==
    [t \in (DOMAIN f) \cup {token} |-> IF t = token THEN v ELSE f[t]]

\* A slab with every slot free.
EmptySlab == [t \in {} |-> FALSE]

\* A reset that stops the service whatever the token.
ResetShutsDown(sv, token) == [sv EXCEPT !.shutdown = TRUE]

\* A reset that frees the slot and lists the token for the sweep.
ResetFreesSlot(sv, token) ==
    IF token = ListenerToken
    THEN [sv EXCEPT !.shutdown = TRUE]
    ELSE [sv EXCEPT !.conns = SlabRemove(@, token),
                    !.reset_tokens = Append(@, token)]

\* A reset that removes the connection at once.
ResetRemovesNow(sv, token) ==
    IF token = ListenerToken
    THEN [sv EXCEPT !.shutdown = TRUE]
    ELSE [sv EXCEPT !.conns = SlabRemove(@, token)]

\* Server::reset_connection, on the server's state sv = [conns, reset_tokens,
\* shutdown].
reset_connection(sv, token) ==
    IF token = ListenerToken
    THEN [sv EXCEPT !.shutdown = TRUE]
    ELSE [sv EXCEPT
            !.conns[token] = mark_reset(find_connection_by_token(sv.conns, token)),
            !.reset_tokens = Append(@, token)]

\* for t in bad_tokens { self.reset_connection(event_loop, t) }
RECURSIVE ResetAll(_, _)
ResetAll(sv, tokens) ==
    IF tokens = <<>> THEN sv
    ELSE ResetAll(reset_connection(sv, Head(tokens)), Tail(tokens))

\* The tokens of set S in the order the slab iterates them.
RECURSIVE InSlabOrder(_)
InSlabOrder(S) ==
    IF S = {} THEN <<>>
    ELSE LET m == CHOOSE x \in S : \A y \in S : x <= y
         IN <<m>> \o InSlabOrder(S \ {m})

\* The registration (re)made by Connection::register / reregister: the
\* connection's interest, edge-triggered and one-shot, armed.
Registration(interest) == [interest |-> interest, armed |-> TRUE]

\* The readiness source disarms a one-shot registration when it reports it.
Disarm(rg, tokens) ==
    [t \in DOMAIN rg |-> IF t \in tokens THEN [rg[t] EXCEPT !.armed = FALSE]
                                        ELSE rg[t]]

\* Connection::deregister, called by Server::ready when a read fails.
deregister(rg, token) == SlabRemove(rg, token)

\* No readable dispatch is running or has just ended.
NoDrain == [present |-> <<>>, ahead |-> <<>>, got |-> <<>>]

\* The payloads of the complete frames that byte sequence buf begins with,
\* for a connection whose read continuation is cont: what successive calls
\* of Connection::readable can take from buf without waiting.
RECURSIVE Frames(_, _)
Frames(cont, buf) ==
    IF cont # None
    THEN IF Len(buf) < Unwrap(cont) THEN <<>>
         ELSE <<Take(buf, Unwrap(cont))>> \o Frames(None, Drop(buf, Unwrap(cont)))
    ELSE IF Len(buf) < HeaderLen THEN <<>>
    ELSE LET msg_len == read_u64(Take(buf, HeaderLen))
             rest    == Drop(buf, HeaderLen)
         IN IF Len(rest) < msg_len THEN <<>>
            ELSE <<Take(rest, msg_len)>> \o Frames(None, Drop(rest, msg_len))

\* The frames of fs in front of its first zero-length frame.
RECURSIVE BeforeEmpty(_)
BeforeEmpty(fs) ==
    IF fs = <<>> \/ Head(fs) = <<>> THEN <<>>
    ELSE <<Head(fs)>> \o BeforeEmpty(Tail(fs))

\* The frames of fs that are not zero-length.
NonEmpty(fs) == SelectSeq(fs, LAMBDA f : f # <<>>)

\* A readable dispatch begins on a connection with read continuation cont
\* and receive buffer buf.
DrainBegin(cont, buf) ==
    [present |-> NonEmpty(Frames(cont, buf)),
     ahead   |-> BeforeEmpty(Frames(cont, buf)),
     got     |-> <<>>]

(***************************************************************************)
(* The monolithic handler (src/src/main.rs): the outbound side of its own  *)
(* Connection, whose send_queue is a Vec of buffers without framing.       *)
(*   main_conn   the Connection: interest and send_queue; a queued buffer  *)
(*               carries the number n of its queue_message call            *)
(*   main_sent   the bytes written to the socket, each with the number of  *)
(*               its buffer                                                *)
(*   main_last   what the last call did: the operation, what the write     *)
(*               reported, the buffer it queued or popped                  *)
(*   main_count  queue_message calls so far                                *)
(***************************************************************************)
VARIABLES main_conn, main_sent, main_last, main_count

main_vars == <<main_conn, main_sent, main_last, main_count>>

\* Connection::new (main.rs)
MainConnectionNew == [interest |-> {"hup"}, send_queue |-> <<>>]

\* Connection::register (main.rs): interest.insert(EventSet::readable())
main_register(c) == [c EXCEPT !.interest = @ \cup {"readable"}]

\* No buffer.
NoBuf == [n |-> 0, data |-> <<>>]

MainInit ==
    /\ main_conn = main_register(MainConnectionNew)
    /\ main_sent = <<>>
    /\ main_last = [op |-> "init", res |-> "none", buf |-> NoBuf]
    /\ main_count = 0

\* A slot that holds no connection has no history.
NoHistory(ins, uses) ==
    [id |-> 0, enq |-> <<>>, wfail |-> FALSE, ins |-> ins, uses |-> uses]

Init ==
    /\ conns = EmptySlab
    /\ reset_tokens = <<>>
    /\ shutdown = FALSE
    /\ reg = (ListenerToken :> Registration({"readable"}))
    /\ sock = EmptySlab
    /\ backlog = 0
    /\ pending = EmptySlab
    /\ pc = "poll"
    /\ cur = ListenerToken
    /\ hist = [t \in ConnTokens |-> NoHistory(0, 0)]
    /\ accepts = 0
    /\ frames = 0
    /\ faults = 0
    /\ stalls = 0
    /\ last = Did("init", ListenerToken, {}, "ok", <<>>, <<>>, FALSE)
    /\ drain = NoDrain
    /\ MainInit

(***************************************************************************)
(* The clients (src/src/client.rs): they connect and write frames.  The    *)
(* network delivers a frame in at most two pieces: the first cut bytes at  *)
(* once, the rest later.  The clients' steps are taken where the server    *)
(* can next observe them: before a poll, and (arrivals) between two reads  *)
(* of Server::readable.  A client's close is seen as a hup event or as a   *)
(* read of 0 bytes.                                                        *)
(***************************************************************************)
\* TcpStream::connect
ClientConnect ==
    /\ pc = "poll"
    /\ accepts < MaxAccepts
    /\ backlog' = backlog + 1
    /\ accepts' = accepts + 1
    /\ UNCHANGED <<drain, stalls, conns, reset_tokens, shutdown, reg, sock, pending, pc, cur,
                   hist, frames, faults, last>>
    /\ UNCHANGED main_vars

\* The payload of the frame a client writes: len bytes that name the frame.
Payload(len, name) == [i \in 1..len |-> name]

\* The payload lengths the clients use: empty and longest.
PayloadLens == {0, MaxPayloadLen}

\* Where the network may cut a frame: after the header or not at all, and
\* (a disruption) inside the header or inside the payload.
CleanCuts(len) == {HeaderLen, HeaderLen + len}

RoughCuts(len) == {c \in {3, HeaderLen + 1} : c < HeaderLen + len}

\* stream.write_all(buf); stream.write_all(msg)
ClientSend(t, len, cut) ==
    /\ pc = "poll"
    /\ frames < MaxFrames
    /\ t \in DOMAIN sock
    /\ ~sock[t].closed
    /\ sock[t].wire = <<>>
    /\ cut \in CleanCuts(len) \cup RoughCuts(len)
    /\ frames' = frames + 1
    /\ faults' = faults + (IF cut \in CleanCuts(len) THEN 0 ELSE 1)
    /\ faults' <= MaxFaults
    /\ LET bytes == Encode(Payload(len, frames + 1))
       IN sock' = [sock EXCEPT ![t].rcvbuf = @ \o Take(bytes, cut),
                               ![t].wire = Drop(bytes, cut)]
    /\ UNCHANGED <<drain, stalls, conns, reset_tokens, shutdown, reg, backlog, pending, pc, cur,
                   hist, accepts, last>>
    /\ UNCHANGED main_vars

\* The rest of what a client wrote arrives.
Deliver(t) ==
    /\ pc \in {"poll", "reading"}
    /\ t \in DOMAIN sock
    /\ sock[t].wire # <<>>
    /\ sock' = [sock EXCEPT ![t].rcvbuf = @ \o sock[t].wire,
                            ![t].wire = <<>>]
    /\ UNCHANGED <<drain, stalls, conns, reset_tokens, shutdown, reg, backlog, pending, pc, cur,
                   hist, accepts, frames, faults, last>>
    /\ UNCHANGED main_vars

(***************************************************************************)
(* The readiness source.  One poll hands over at most one event per        *)
(* registered token, only for armed registrations, and disarms them; it    *)
(* leaves out a token that is ready only when the batch is full.  The      *)
(* event of a token carries error or hup, or else bits of the interest the *)
(* token was registered with at the poll.                                  *)
(***************************************************************************)
ListenerEvents == {{"readable"}, {"error"}, {"hup"}}

ConnEvents ==
    {{"readable"}, {"writable"}, {"readable", "writable"}, {"error"}, {"hup"},
     {"error", "readable", "writable"}, {"hup", "readable", "writable"}}

\* Whether armed token t has something to report without a disruption: a
\* connection to accept, bytes to read, room to write.
IsReady(t) ==
    IF t = ListenerToken THEN backlog > 0
    ELSE \/ "readable" \in reg[t].interest /\ sock[t].rcvbuf # <<>>
         \/ "writable" \in reg[t].interest

\* The conditions the readiness source can find token t in.
Conditions(t) ==
    {"ready" : x \in {1} \cap {IF IsReady(t) THEN 1 ELSE 0}}
    \cup {"error"}
    \cup {"hup" : x \in {1} \cap
             {IF t = ListenerToken \/ (sock[t].wire = <<>> /\ ~sock[t].closed)
              THEN 1 ELSE 0}}

\* The batches the readiness source can report for the tokens S.
RECURSIVE Batches(_)
Batches(S) ==
    IF S = {} THEN {EmptySlab}
    ELSE LET t == CHOOSE x \in S : TRUE
         IN {SlabPut(b, t, [interest |-> reg[t].interest, cond |-> c]) :
                b \in Batches(S \ {t}), c \in Conditions(t)}

\* event_loop.run: io_poll collects the next batch of events.
Poll ==
    /\ pc = "poll"
    /\ ~shutdown
    /\ \E S \in SUBSET {t \in DOMAIN reg : reg[t].armed} :
          /\ S # {}
          /\ Cardinality(S) <= MaxBatch
          /\ \/ Cardinality(S) = MaxBatch
             \/ \A t \in DOMAIN reg : reg[t].armed /\ IsReady(t) => t \in S
          /\ \E batch \in Batches(S) :
                /\ pending' = batch
                /\ faults' = faults +
                      Cardinality({t \in S : batch[t].cond # "ready"})
                /\ faults' <= MaxFaults
                \* a hup is the client closing its end
                /\ sock' = [t \in DOMAIN sock |->
                              IF t \in S /\ batch[t].cond = "hup"
                              THEN [sock[t] EXCEPT !.closed = TRUE] ELSE sock[t]]
          /\ reg' = Disarm(reg, S)
    /\ pc' = "dispatch"
    /\ UNCHANGED <<drain, stalls, conns, reset_tokens, shutdown, backlog, cur, hist,
                   accepts, frames, last>>
    /\ UNCHANGED main_vars

\* Whether the event of pending token t can be ev.
CanReport(t, ev) ==
    /\ t \in DOMAIN pending
    /\ ev \in (IF t = ListenerToken THEN ListenerEvents ELSE ConnEvents)
    /\ "error" \in ev <=> pending[t].cond = "error"
    /\ "hup" \in ev <=> pending[t].cond = "hup"
    /\ pending[t].cond = "ready" /\ t # ListenerToken =>
          /\ ev \subseteq pending[t].interest
          /\ "readable" \in ev => sock[t].rcvbuf # <<>>

\* The server's own state, as the operators of Server take and return it.
ServerState ==
    [conns |-> conns, reset_tokens |-> reset_tokens, shutdown |-> shutdown]

\* A sweep that empties the table when any connection was reset.
SweepAll(cs, tokens) == IF tokens = <<>> THEN cs ELSE EmptySlab

\* A sweep whose contains test is inverted: it removes nothing.
SweepNone(cs, tokens) == cs

\* Handler::tick: the end-of-tick sweep.
RECURSIVE Sweep(_, _)
Sweep(cs, tokens) ==
    IF tokens = <<>> THEN cs
    ELSE Sweep(IF SlabContains(cs, Head(tokens))
               THEN SlabRemove(cs, Head(tokens)) ELSE cs,
               Tail(tokens))

Tick ==
    /\ pc = "dispatch"
    /\ pending = EmptySlab
    /\ conns' = Sweep(conns, reset_tokens)
    /\ reset_tokens' = <<>>
    \* a removed Connection is dropped: its socket closes, which also ends
    \* its registration
    /\ sock' = [t \in DOMAIN conns' |-> sock[t]]
    /\ reg' = [t \in (DOMAIN reg) \ ((DOMAIN conns) \ (DOMAIN conns')) |-> reg[t]]
    /\ hist' = [t \in DOMAIN hist |->
                  IF t \in (DOMAIN conns) \ (DOMAIN conns')
                  THEN NoHistory(hist[t].ins, hist[t].uses) ELSE hist[t]]
    /\ pc' = "poll"
    /\ last' = Did("tick", ListenerToken, {}, "ok", reset_tokens, <<>>, FALSE)
    /\ drain' = NoDrain
    /\ UNCHANGED <<stalls, shutdown, backlog, pending, cur, accepts, frames, faults>>
    /\ UNCHANGED main_vars

\* A test that takes an event for an error only when no other bit is set.
error_alone(ev) == ev = {"error"}

\* events.is_error()
is_error(ev) == "error" \in ev

\* events.is_hup()
is_hup(ev) == "hup" \in ev

\* Handler::ready, events.is_error(): reset and return.
ReadyError(token, ev) ==
    /\ pc = "dispatch"
    /\ CanReport(token, ev)
    /\ is_error(ev)
    /\ LET sv == reset_connection(ServerState, token)
       IN /\ conns' = sv.conns
          /\ reset_tokens' = sv.reset_tokens
          /\ shutdown' = sv.shutdown
    /\ pending' = SlabRemove(pending, token)
    /\ last' = Did("error", token, ev, "reset", <<>>, <<token>>, FALSE)
    /\ drain' = NoDrain
    /\ UNCHANGED <<stalls, reg, sock, backlog, pc, cur, hist, accepts, frames, faults>>
    /\ UNCHANGED main_vars

\* Handler::ready, events.is_hup(): reset and return.  The client has closed
\* its end.
ReadyHup(token, ev) ==
    /\ pc = "dispatch"
    /\ CanReport(token, ev)
    /\ ~is_error(ev)
    /\ is_hup(ev)
    /\ LET sv == reset_connection(ServerState, token)
       IN /\ conns' = sv.conns
          /\ reset_tokens' = sv.reset_tokens
          /\ shutdown' = sv.shutdown
    /\ pending' = SlabRemove(pending, token)
    /\ last' = Did("hup", token, ev, "reset", <<>>, <<token>>, FALSE)
    /\ drain' = NoDrain
    /\ UNCHANGED <<stalls, reg, sock, backlog, pc, cur, hist, accepts, frames, faults>>
    /\ UNCHANGED main_vars

\* A slab that hands out occupied slots too.
AnySlot(cs) == ConnTokens

\* The slots insert_with may take: the slab's free slots.
FreeSlots(cs) == ConnTokens \ DOMAIN cs

\* An insert that gives every connection the first token.
InsertFirstToken(cs, token) == SlabPut(cs, token, ConnectionNew(FirstConnToken))

\* self.conns.insert_with(|token| Connection::new(sock, token)), for the slot
\* the slab picked.
insert_with(cs, token) == SlabPut(cs, token, ConnectionNew(token))

\* A register that sets the interest to readable instead of inserting it.
register_assign(c) == [c EXCEPT !.interest = {"readable"}]

\* Connection::register: interest.insert(Ready::readable()).
register(c) == [c EXCEPT !.interest = @ \cup {"readable"}]

\* An accept that takes every pending connection and hands over the last.
accept_all(n) == 0

\* self.sock.accept() that returns a socket: one pending connection leaves
\* the backlog of n.
sock_accept(n) == n - 1

\* Server::reregister: rearm the listener, or reset the server token.
ServerReregister(sv, ok) ==
    IF ok THEN sv ELSE reset_connection(sv, ListenerToken)

\* Handler::ready, events.is_readable() for the server token: Server::accept.
\*   a      what self.sock.accept() returns: a socket, none, or an error
\*   token  the slot the slab picks when one is free
\*   rok    whether Connection::register succeeds
\*   lok    whether Server::reregister succeeds
Accept(a, token, rok, lok) ==
    /\ pc = "dispatch"
    /\ CanReport(ListenerToken, {"readable"})
    /\ pending' = SlabRemove(pending, ListenerToken)
    /\ a \in {"sock", "none", "err"}
    /\ a = "sock" => backlog > 0
    /\ faults' = faults + (IF a = "err" THEN 1 ELSE 0) + (IF rok THEN 0 ELSE 1)
                        + (IF lok THEN 0 ELSE 1)
    /\ faults' <= MaxFaults
    /\ LET full     == FreeSlots(conns) = {}
           inserted == a = "sock" /\ ~full
           kept     == inserted /\ rok
           id       == accepts - backlog + 1
           cs1      == IF inserted THEN insert_with(conns, token) ELSE conns
           cs2      == IF kept
                       THEN [cs1 EXCEPT ![token] = register(cs1[token])]
                       ELSE IF inserted THEN SlabRemove(cs1, token) ELSE cs1
           sv       == ServerReregister([ServerState EXCEPT !.conns = cs2], lok)
       IN /\ inserted => token \in FreeSlots(conns)
          /\ ~inserted => token = ListenerToken /\ rok
          /\ conns' = sv.conns
          /\ reset_tokens' = sv.reset_tokens
          /\ shutdown' = sv.shutdown
          /\ backlog' = IF a = "sock" THEN sock_accept(backlog) ELSE backlog
          /\ sock' = IF kept THEN SlabPut(sock, token, SocketNew) ELSE sock
          /\ reg' = LET r1 == IF kept
                              THEN SlabPut(reg, token,
                                           Registration(cs2[token].interest))
                              ELSE reg
                    IN IF lok
                       THEN SlabPut(r1, ListenerToken, Registration({"readable"}))
                       ELSE r1
          /\ hist' = IF kept
                     THEN [hist EXCEPT ![token] =
                             [id |-> id, enq |-> <<>>, wfail |-> FALSE,
                              ins |-> @.ins + 1, uses |-> @.uses + 1]]
                     ELSE IF inserted
                     THEN [hist EXCEPT ![token].ins = @ + 1]
                     ELSE hist
          /\ last' = Did("accept", token, {"readable"},
                         IF kept THEN "inserted"
                         ELSE IF inserted THEN "regfail"
                         ELSE IF a = "sock" THEN "full" ELSE "nosock",
                         <<>>, <<>>, ~lok)
    /\ drain' = NoDrain
    /\ UNCHANGED <<stalls, pc, cur, accepts, frames>>
    /\ UNCHANGED main_vars

\* A reregister that leaves the registration as the last event left it.
never_rearm(rg, c) == rg

\* Connection::reregister after a successful operation on token: the
\* registration is remade with the connection's interest.
ConnReregister(rg, c) == SlabPut(rg, c.token, Registration(c.interest))

\* A dispatch without the test for a connection that was reset.
never_reset(cs, token) == FALSE

\* Handler::ready: if self.find_connection_by_token(token).is_reset() { return; }
already_reset(cs, token) == is_reset(find_connection_by_token(cs, token))

\* Handler::ready for a connection token without error or hup: the writable
\* part, then the start of the readable part.
\*   ev   the events
\*   o    what the socket does with the write
\*   rok  whether Connection::reregister succeeds after the write
ReadyConn(token, ev, o, rok) ==
    /\ pc = "dispatch"
    /\ token # ListenerToken
    /\ CanReport(token, ev)
    /\ ~is_error(ev)
    /\ ~is_hup(ev)
    /\ o # NoWrite => conns[token].send_queue # <<>>
    /\ faults' = faults + (IF rok THEN 0 ELSE 1) + FaultCost(o)
    /\ faults' <= MaxFaults
    /\ stalls' = stalls + (IF o = NoWrite THEN 0
                           ELSE StallCost(pop_front(conns[token].send_queue).buf, o))
    /\ stalls' <= MaxStalls
    /\ pending' = SlabRemove(pending, token)
    /\ \E c \in {find_connection_by_token(conns, token)},
          wpart \in {"writable" \in ev},
          wrun \in {"writable" \in ev /\ ~already_reset(conns, token)} :
       /\ IF wrun /\ c.send_queue # <<>>
          THEN WriteApplies([c EXCEPT !.send_queue = pop_front(@).rest],
                            pop_front(c.send_queue).buf, o)
          ELSE o = NoWrite
       /\ \E w \in {IF wrun THEN writable(c, sock[token], o)
                     ELSE [res |-> "ok", c |-> c, s |-> sock[token]]} :
          LET wskip   == wpart /\ ~wrun
              wok     == w.res = "ok" /\ rok
              sv1     == IF wrun
                         THEN LET sv == [ServerState EXCEPT !.conns[token] = w.c]
                              IN IF wok THEN sv ELSE reset_connection(sv, token)
                         ELSE ServerState
              rpart   == ~wskip /\ "readable" \in ev
              rrun    == rpart /\ ~already_reset(sv1.conns, token)
          IN
          /\ (~wrun \/ w.res # "ok") => rok
          /\ conns' = sv1.conns
          /\ reset_tokens' = sv1.reset_tokens
          /\ shutdown' = sv1.shutdown
          /\ sock' = IF wrun THEN [sock EXCEPT ![token] = w.s] ELSE sock
          /\ reg' = IF wrun /\ wok THEN ConnReregister(reg, w.c) ELSE reg
          /\ pc' = IF rrun THEN "reading" ELSE "dispatch"
          /\ cur' = IF rrun THEN token ELSE cur
          /\ drain' = IF rrun
                      THEN DrainBegin(c.read_continuation, sock[token].rcvbuf)
                      ELSE NoDrain
          /\ hist' = IF wrun /\ w.res = "err"
                     THEN [hist EXCEPT ![token].wfail = TRUE] ELSE hist
          /\ last' = Did(IF wpart THEN "writable" ELSE "readable", token, ev,
                         IF wskip \/ (rpart /\ ~rrun /\ ~wrun) THEN "skipped"
                         ELSE IF wrun /\ ~wok THEN "err" ELSE "ok",
                         Untagged(Drop(w.s.sent, Len(sock[token].sent))),
                         IF wrun /\ ~wok THEN <<token>> ELSE <<>>, FALSE)
    /\ UNCHANGED <<backlog, accepts, frames>>
    /\ UNCHANGED main_vars

(***************************************************************************)
(* Server::readable: the loop                                              *)
(*     while let Some(message) = try!(conn.readable()) { fan out }         *)
(* one iteration per step.  ReadFrame is an iteration that got a message,  *)
(* ReadDone the one that got None (the loop ends and Server::ready         *)
(* reregisters the connection), ReadFail the one that got an error.        *)
(***************************************************************************)
\* A fan-out that leaves out the connection the frame came from.
FanOutOthers(cs, token) == (DOMAIN cs) \ {token}

\* for conn in self.conns.iter_mut(): the connections a message is sent to.
FanOutTargets(cs, token) == DOMAIN cs

\* What the environment decides for one connection of the fan-out: the
\* outcome o of the write and whether the reregister succeeds.
FanOutcomes == [o : WriteOutcomes \cup {NoWrite}, rok : BOOLEAN]

\* The buffer handed to connection t for a message.
BufferFor(t, message) == [n |-> Len(hist[t].enq) + 1, data |-> message]

\* What a choice x for connection t costs the budget of faults.  A write
\* that fails on a socket whose client has closed is no new fault.
FanOutCost(t, x) ==
    (IF sock[t].closed THEN 0 ELSE FaultCost(x.o)) + (IF x.rok THEN 0 ELSE 1)

\* What the environment can decide for connection c and buffer buf with
\* budget faults and room stalls left: a failed send_message skips the
\* reregister.
FanOutcomesFor(c, buf, budget, room) ==
    {x \in FanOutcomes : /\ SendApplies(c, buf, x.o)
                         /\ WriteFault(x.o) => x.rok
                         /\ FanOutCost(c.token, x) <= budget
                         /\ StallCost(buf, x.o) <= room}

\* What the environment can decide for the connections T of slab cs.
RECURSIVE FanOutChoices(_, _, _, _, _)
FanOutChoices(cs, T, message, budget, room) ==
    IF T = {} THEN {EmptySlab}
    ELSE UNION {UNION {{SlabPut(f, t, x) :
                          f \in FanOutChoices(cs, T \ {t}, message,
                                              budget - FanOutCost(t, x),
                                              room - StallCost(buf, x.o))} :
                       x \in FanOutcomesFor(cs[t], buf, budget, room)} :
                t \in {CHOOSE x \in T : TRUE}, buf \in {BufferFor(CHOOSE x \in T : TRUE, message)}}

\* What the choices outs cost the budget of faults.
FanOutFaults(outs) ==
    Cardinality({t \in DOMAIN outs : FaultCost(outs[t].o) = 1 /\ ~sock[t].closed})
    + Cardinality({t \in DOMAIN outs : ~outs[t].rok})

\* The writes that stall among the choices outs for a message.
FanOutStalls(outs, message) ==
    Cardinality({t \in DOMAIN outs :
                    WriteStalls(BufferFor(t, message), outs[t].o)})

\* What a read costs the budget of faults.
ReadFault(o) == IF o = "ok" THEN 0 ELSE 1

\* What the environment can decide for the fan-out of the message that the
\* read with outcome o returns, if it returns one.
FrameChoices(o) ==
    UNION {IF r.res = "some"
           THEN FanOutChoices([conns EXCEPT ![cur] = r.c],
                              FanOutTargets(conns, cur), r.msg,
                              MaxFaults - faults - ReadFault(o),
                              MaxStalls - stalls)
           ELSE {} :
           r \in {readable(find_connection_by_token(conns, cur), sock[cur], o)}}

\* One iteration that got a message.
\*   o     what the socket does with the read
\*   outs  what the environment decides for each connection of the fan-out
ReadFrame(o, outs) ==
    /\ pc = "reading"
    /\ \E r \in {readable(find_connection_by_token(conns, cur), sock[cur], o)} :
       /\ r.res = "some"
       /\ faults' = faults + FanOutFaults(outs) + ReadFault(o)
       /\ faults' <= MaxFaults
       /\ stalls' = stalls + FanOutStalls(outs, r.msg)
       /\ stalls' <= MaxStalls
       /\ LET cs1     == [conns EXCEPT ![cur] = r.c]
              ss1     == [sock EXCEPT ![cur] = r.s]
              targets == FanOutTargets(cs1, cur)
          IN /\ DOMAIN outs = targets
             /\ \E w \in {[t \in targets |->
                            send_message(cs1[t], ss1[t], BufferFor(t, r.msg),
                                         outs[t].o)]} :
                LET bad == {t \in targets : w[t].res = "err" \/ ~outs[t].rok}
                    cs2 == [t \in DOMAIN cs1 |->
                              IF t \in targets THEN w[t].c ELSE cs1[t]]
                IN /\ \E sv \in {ResetAll([ServerState EXCEPT !.conns = cs2],
                                          InSlabOrder(bad))} :
                      /\ conns' = sv.conns
                      /\ reset_tokens' = sv.reset_tokens
                      /\ shutdown' = sv.shutdown
                   /\ sock' = [t \in DOMAIN ss1 |->
                                 IF t \in targets THEN w[t].s ELSE ss1[t]]
                   /\ reg' = [t \in DOMAIN reg |->
                                IF t \in targets \ bad
                                THEN Registration(w[t].c.interest)
                                ELSE reg[t]]
                   /\ hist' = [t \in DOMAIN hist |->
                                 IF t \in targets
                                 THEN [hist[t] EXCEPT
                                         !.enq = Append(@, [from |-> hist[cur].id,
                                                            data |-> r.msg]),
                                         !.wfail = @ \/ w[t].res = "err"]
                                 ELSE hist[t]]
                   /\ last' = Did("frame", cur, {"readable"}, "some", r.msg,
                                  InSlabOrder(bad), FALSE)
                   /\ drain' = [drain EXCEPT !.got = Append(@, r.msg)]
    /\ UNCHANGED <<backlog, pending, pc, cur, accepts, frames>>
    /\ UNCHANGED main_vars

\* The iteration that got None: the loop ends, Server::ready reregisters.
\*   rok  whether Connection::reregister succeeds
ReadDone(o, rok) ==
    /\ pc = "reading"
    /\ \E r \in {readable(find_connection_by_token(conns, cur), sock[cur], o)} :
       /\ r.res = "none"
       /\ \E sv \in {IF rok THEN [ServerState EXCEPT !.conns[cur] = r.c]
                     ELSE reset_connection([ServerState EXCEPT !.conns[cur] = r.c],
                                           cur)} :
             /\ conns' = sv.conns
             /\ reset_tokens' = sv.reset_tokens
             /\ shutdown' = sv.shutdown
       /\ sock' = [sock EXCEPT ![cur] = r.s]
       /\ reg' = IF rok THEN ConnReregister(reg, r.c) ELSE deregister(reg, cur)
       /\ last' = Did("read", cur, {"readable"},
                      IF ~rok THEN "rfail" ELSE IF r.zero THEN "zero" ELSE "none",
                      <<>>, IF rok THEN <<>> ELSE <<cur>>, FALSE)
    /\ pc' = "dispatch"
    /\ faults' = faults + (IF rok THEN 0 ELSE 1) + ReadFault(o)
    /\ faults' <= MaxFaults
    /\ UNCHANGED <<drain, stalls, backlog, pending, cur, hist, accepts, frames>>
    /\ UNCHANGED main_vars

\* The iteration that got an error: Server::ready deregisters and resets.
ReadFail(o) ==
    /\ pc = "reading"
    /\ \E r \in {readable(find_connection_by_token(conns, cur), sock[cur], o)} :
       /\ r.res = "err"
       /\ \E sv \in {reset_connection([ServerState EXCEPT !.conns[cur] = r.c],
                                      cur)} :
             /\ conns' = sv.conns
             /\ reset_tokens' = sv.reset_tokens
             /\ shutdown' = sv.shutdown
       /\ sock' = [sock EXCEPT ![cur] = r.s]
       /\ reg' = deregister(reg, cur)
       /\ last' = Did("read", cur, {"readable"}, "err", <<>>, <<cur>>, FALSE)
    /\ pc' = "dispatch"
    /\ faults' = faults + ReadFault(o)
    /\ faults' <= MaxFaults
    /\ UNCHANGED <<drain, stalls, backlog, pending, cur, hist, accepts, frames>>
    /\ UNCHANGED main_vars

\* The reads the environment can choose for socket s: a read fails or finds
\* the client closed only when nothing more is to arrive.
ReadApplies(s, o) ==
    /\ o \in ReadOutcomes
    /\ o = "eof" => s.wire = <<>> /\ ~s.closed
    /\ faults + ReadFault(o) <= MaxFaults

(***************************************************************************)
(* The monolithic handler (src/src/main.rs): the operations of its         *)
(* Connection on the outbound side, and the steps that call them.          *)
(***************************************************************************)
\* Connection::queue_message (main.rs): self.send_queue.push(message);
\* self.interest.insert(EventSet::writable())
queue_message(c, message) ==
    [c EXCEPT !.send_queue = Append(@, message),
              !.interest = @ \cup {"writable"}]

\* Vec::pop on a vector that is not empty: the last element leaves.
vec_pop(v) == [buf |-> v[Len(v)], rest |-> SubSeq(v, 1, Len(v) - 1)]

\* What self.sock.try_write_buf(&mut buf) may report: Ok(None) (would
\* block), Ok(Some(n)) (n bytes written), Err.
TryWriteOutcomes ==
    {[res |-> "wouldblock", n |-> 0], [res |-> "err", n |-> 0]}
    \cup {[res |-> "ok", n |-> k] : k \in 1..MaxPayloadLen}

\* Connection::writable (main.rs) on connection c with sent on the socket:
\* pop a buffer, try to write it, drop it; without a buffer left, remove
\* writable interest.
main_writable(c, sent, o) ==
    IF c.send_queue = <<>>
    THEN [c |-> [c EXCEPT !.interest = @ \ {"writable"}], sent |-> sent,
          buf |-> NoBuf]
    ELSE LET p  == vec_pop(c.send_queue)
             c1 == [c EXCEPT !.send_queue = p.rest]
         IN [c    |-> IF Len(c1.send_queue) = 0
                      THEN [c1 EXCEPT !.interest = @ \ {"writable"}] ELSE c1,
             sent |-> IF o.res = "ok"
                      THEN sent \o Tagged(p.buf.n, Take(p.buf.data, o.n))
                      ELSE sent,
             buf  |-> p.buf]

\* Server::conn_readable (main.rs) queues a message for the client.
MainQueue(len) ==
    /\ main_count < MaxQueued
    /\ \E message \in {[n |-> main_count + 1, data |-> Payload(len, main_count + 1)]} :
          /\ main_conn' = queue_message(main_conn, message)
          /\ main_last' = [op |-> "queue", res |-> "none", buf |-> message]
    /\ main_count' = main_count + 1
    /\ UNCHANGED main_sent
    /\ UNCHANGED vars

\* Handler::ready (main.rs) with a writable event, which the readiness
\* source reports for a registration with writable interest.
MainWritable(o) ==
    /\ "writable" \in main_conn.interest
    /\ main_conn.send_queue # <<>> => o.n <= Len(vec_pop(main_conn.send_queue).buf.data)
    /\ \E w \in {main_writable(main_conn, main_sent, o)} :
          /\ main_conn' = w.c
          /\ main_sent' = w.sent
          /\ main_last' = [op |-> "writable", res |-> o.res, buf |-> w.buf]
    /\ UNCHANGED main_count
    /\ UNCHANGED vars

MainNext ==
    \/ \E len \in 1..MaxPayloadLen : MainQueue(len)
    \/ \E o \in TryWriteOutcomes : MainWritable(o)

MainSpec == Init /\ [][MainNext]_main_vars

Next ==
    \/ ClientConnect
    \/ \E t \in DOMAIN sock, len \in PayloadLens :
          \E cut \in CleanCuts(len) \cup RoughCuts(len) : ClientSend(t, len, cut)
    \/ \E t \in DOMAIN sock : Deliver(t)
    \/ Poll
    \/ Tick
    \/ \E token \in DOMAIN pending, ev \in ListenerEvents \cup ConnEvents :
          ReadyError(token, ev)
    \/ \E token \in DOMAIN pending, ev \in ListenerEvents \cup ConnEvents :
          ReadyHup(token, ev)
    \/ /\ pc = "dispatch"
       /\ \E a \in {"sock", "none", "err"}, token \in ConnTokens \cup {ListenerToken},
             rok, lok \in BOOLEAN : Accept(a, token, rok, lok)
    \/ /\ pc = "dispatch"
       /\ \E token \in DOMAIN pending, ev \in ConnEvents,
             o \in WriteOutcomes \cup {NoWrite}, rok \in BOOLEAN :
                ReadyConn(token, ev, o, rok)
    \/ /\ pc = "reading"
       /\ \E o \in {x \in ReadOutcomes : ReadApplies(sock[cur], x)} :
             \E outs \in FrameChoices(o) : ReadFrame(o, outs)
    \/ /\ pc = "reading"
       /\ \E o \in {x \in ReadOutcomes : ReadApplies(sock[cur], x)},
             rok \in BOOLEAN : ReadDone(o, rok)
    \/ /\ pc = "reading"
       /\ \E o \in {x \in ReadOutcomes : ReadApplies(sock[cur], x)} : ReadFail(o)

Spec == Init /\ [][Next]_vars

(***************************************************************************)
(* The service without I/O errors: frames arrive cut after the header or   *)
(* whole, the readiness source reports no error and no hangup, no accept,  *)
(* read, write, register or reregister fails.  A write may still take only *)
(* part of its buffer or report would-block, MaxStalls times.  No more     *)
(* clients connect than the table holds (a further one would be dropped by *)
(* Server::accept and never has an outbound queue).  The event             *)
(* loop runs its handlers as long as one has an event (server.rs: run      *)
(* never returns before shutdown), and a registration that is armed and    *)
(* ready is reported by some later poll.                                   *)
(***************************************************************************)
\* A step that causes no fault.
Calm == faults' = faults

\* The outcomes of a write on a socket that does not fail.
CalmWrites == {o \in WriteOutcomes \cup {NoWrite} : ~WriteFault(o)}

\* Handler::ready and Handler::tick, without failures.
CalmDispatch ==
    \/ Tick
    \/ /\ pc = "dispatch"
       /\ \E a \in {"sock", "none"}, token \in ConnTokens \cup {ListenerToken} :
             Accept(a, token, TRUE, TRUE)
    \/ /\ pc = "dispatch"
       /\ \E token \in DOMAIN pending, ev \in ConnEvents, o \in CalmWrites :
             ReadyConn(token, ev, o, TRUE)
    \/ /\ pc = "reading"
       /\ \E outs \in {x \in FrameChoices("ok") : FanOutFaults(x) = 0} :
             ReadFrame("ok", outs)
    \/ /\ pc = "reading"
       /\ ReadDone("ok", TRUE)

\* A poll that reports token t among its events.
Notifies(t) == Poll /\ Calm /\ t \in DOMAIN pending'

LiveNext ==
    \/ ClientConnect /\ accepts < SlabCapacity
    \/ \E t \in DOMAIN sock, len \in PayloadLens :
          \E cut \in CleanCuts(len) : ClientSend(t, len, cut)
    \/ \E t \in DOMAIN sock : Deliver(t)
    \/ Poll /\ Calm
    \/ CalmDispatch

LiveSpec ==
    /\ Init
    /\ [][LiveNext]_vars
    /\ WF_vars(CalmDispatch)
    /\ \A t \in ConnTokens : SF_vars(Notifies(t))

(***************************************************************************)
(* Properties.  A step of the server is a step that changes last; clients  *)
(* and the network leave it alone.                                         *)
(***************************************************************************)
ServerStep == last' # last

\* Sequence p is a prefix of sequence s.
IsPrefix(p, s) == Len(p) <= Len(s) /\ Take(s, Len(p)) = p

\* The step is an iteration of Server::readable that got a message.
FrameStep == ServerStep /\ last'.op = "frame"

\* The frames send_message was called with on slot t's connection, as they
\* go on the wire one after the other, each byte with its frame's number.
RECURSIVE TaggedFrom(_, _)
TaggedFrom(enq, i) ==
    IF i > Len(enq) THEN <<>>
    ELSE Tagged(i, Encode(enq[i].data)) \o TaggedFrom(enq, i + 1)

\* What queue holds behind its first buffer, as it goes on the wire.
RECURSIVE TaggedQueue(_)
TaggedQueue(queue) ==
    IF queue = <<>> THEN <<>>
    ELSE Tagged(Head(queue).n, Encode(Head(queue).data))
         \o TaggedQueue(Tail(queue))

\* What connection c has still to write: the first buffer of its queue
\* without a header if the write continuation says the header is out.
Unwritten(c) ==
    IF c.send_queue = <<>> THEN <<>>
    ELSE (IF c.write_continuation
          THEN Tagged(Head(c.send_queue).n, Head(c.send_queue).data)
          ELSE Tagged(Head(c.send_queue).n, Encode(Head(c.send_queue).data)))
         \o TaggedQueue(Tail(c.send_queue))

\* The outbound byte stream of slot t: what was written, then what is queued.
OutboundStream(cs, ss, t) == Untagged(ss[t].sent \o Unwritten(cs[t]))

\* C1 (fan-out completeness): an iteration of Server::readable that got a
\* non-empty frame from connection i calls send_message with that frame
\* exactly once on every connection in the table, connection i included, and
\* on no other slot, within that iteration; and on every connection none of
\* whose writes has failed, the frame (header and payload) is then at the
\* end of the outbound stream, written or queued.
C1_FanOutCompleteness ==
    [][FrameStep =>
         /\ last'.msg # <<>>
         /\ last'.token \in DOMAIN conns
         /\ \A t \in DOMAIN conns :
               /\ hist'[t].enq =
                     Append(hist[t].enq, [from |-> hist[last'.token].id,
                                          data |-> last'.msg])
               /\ ~hist'[t].wfail =>
                     OutboundStream(conns', sock', t) =
                        OutboundStream(conns, sock, t) \o Encode(last'.msg)
         /\ \A t \in ConnTokens \ DOMAIN conns : hist'[t] = hist[t]]_vars

\* A frame was fanned out to two connections: written at once to the
\* sender, queued on the other.
C1_Witness ==
    /\ last.op = "frame"
    /\ Cardinality(DOMAIN conns) = 2
    /\ \E t \in DOMAIN conns :
          /\ t # last.token
          /\ conns[t].send_queue # <<>>
          /\ conns[last.token].send_queue = <<>>
          /\ Untagged(sock[last.token].sent) = Encode(last.msg)

\* C2 (partial-write resumption): on every connection none of whose writes
\* has failed, whatever send_message and writable calls were made and
\* whatever part of its buffer each write took (all, some, none, would-block),
\* the bytes written are a prefix of the frames sent, each as 8-byte
\* big-endian length then payload, in the order of the send_message calls;
\* and what is written followed by what the queue holds is exactly that
\* sequence, the first queued buffer counting without its header once the
\* write continuation is set: the next write resumes at the byte the last
\* one stopped at, the header is not written again, and no byte of a later
\* frame is out before the frame in progress is complete.
C2_PartialWriteResumption ==
    \A t \in DOMAIN conns :
       ~hist[t].wfail =>
          /\ IsPrefix(sock[t].sent, TaggedFrom(hist[t].enq, 1))
          /\ sock[t].sent \o Unwritten(conns[t]) = TaggedFrom(hist[t].enq, 1)

\* A writable event has just written the last byte of a frame whose header
\* and first byte an earlier, partial write had taken.
C2_Witness ==
    /\ last.op = "writable"
    /\ last.res = "ok"
    /\ Len(last.msg) = 1
    /\ last.token \in DOMAIN conns
    /\ Len(hist[last.token].enq) = 1
    /\ Len(hist[last.token].enq[1].data) = MaxPayloadLen
    /\ Untagged(sock[last.token].sent) = Encode(hist[last.token].enq[1].data)
    /\ ~conns[last.token].write_continuation

\* The length of the frame connection c is reading from socket s: the one
\* the read continuation keeps, or else the one the 8 bytes in front of the
\* receive buffer declare (0 if fewer than 8 are there).
DeclaredLen(c, s) ==
    IF c.read_continuation # None THEN Unwrap(c.read_continuation)
    ELSE IF Len(s.rcvbuf) < HeaderLen THEN 0
    ELSE read_u64(Take(s.rcvbuf, HeaderLen))

\* The bytes of that frame's payload that have arrived.
ArrivedPayload(c, s) ==
    IF c.read_continuation # None THEN s.rcvbuf ELSE Drop(s.rcvbuf, HeaderLen)

\* Connection cur is about to read a frame of length L > 0 of which fewer
\* than L payload bytes have arrived; the rest is still on its way.
AwaitsPayload ==
    /\ pc = "reading"
    /\ ~is_reset(conns[cur])
    /\ DeclaredLen(conns[cur], sock[cur]) > 0
    /\ Len(ArrivedPayload(conns[cur], sock[cur])) < DeclaredLen(conns[cur], sock[cur])
    /\ sock[cur].wire # <<>>
    /\ ~sock[cur].closed

\* Connection cur resumes a frame whose header was read before, and the
\* whole payload has arrived.
ResumesPayload ==
    /\ pc = "reading"
    /\ conns[cur].read_continuation # None
    /\ Len(sock[cur].rcvbuf) >= Unwrap(conns[cur].read_continuation)

\* C3 (partial-read resumption): when the header of a frame of length L > 0
\* is read and fewer than L payload bytes (0 to L-1) are there, the read
\* returns no frame and no error, the connection stays Active and keeps L;
\* and a later read, once the payload is there, returns exactly those L
\* bytes with the length kept, reading no new header.  (Steps in which the
\* environment makes a call fail are left out.)
C3_PartialReadResumption ==
    [][(ServerStep /\ faults' = faults) =>
         /\ AwaitsPayload =>
               /\ last'.op = "read"
               /\ last'.res = "none"
               /\ ~is_reset(conns'[cur])
               /\ conns'[cur].read_continuation =
                     Some(DeclaredLen(conns[cur], sock[cur]))
         /\ ResumesPayload =>
               /\ last'.op = "frame"
               /\ last'.msg = Take(sock[cur].rcvbuf,
                                   Unwrap(conns[cur].read_continuation))
               /\ sock'[cur].rcvbuf = Drop(sock[cur].rcvbuf, Len(last'.msg))
               /\ conns'[cur].read_continuation = None]_vars

\* The elements of a sequence.
Range(s) == {s[i] : i \in 1..Len(s)}

\* Slot B is untouched by the step.
Untouched(B) ==
    /\ B \in DOMAIN conns'
    /\ conns'[B] = conns[B]
    /\ sock'[B] = sock[B]
    /\ hist'[B] = hist[B]
    /\ B \in DOMAIN reg => B \in DOMAIN reg' /\ reg'[B] = reg[B]

\* C4 as stated (isolation): when connection A gets an error or hangup event
\* or a read or write on A fails, the only state that changes is A's
\* Draining mark and the reset list.  (A failed reregister follows an
\* operation that succeeded and had its effect, so it is left out here.)
C4_OnlyTheMarkChanges ==
    [][\A A \in DOMAIN conns :
          (/\ ServerStep
           /\ last'.bad = <<A>>
           /\ \/ last'.op \in {"error", "hup"}
              \/ last'.op = "writable" /\ hist'[A].wfail /\ ~hist[A].wfail
              \/ last'.op = "read" /\ last'.res = "err")
          => /\ conns' = [conns EXCEPT ![A] = mark_reset(@)]
             /\ reset_tokens' = Append(reset_tokens, A)]_vars

\* C4 as amended: every connection A that reset_connection is called for
\* stays in the table, Draining, with its token added to the reset list, and
\* an error or hangup event changes nothing else; a failed operation may
\* have changed A itself (a failed write has taken the buffer off A's
\* queue, a failed read has taken bytes and A's registration).  Every other
\* connection B is untouched by a dispatch for A: presence, queue,
\* continuations, interest, socket and registration.  A frame fanned out
\* when other connections fail or are Draining is still delivered to B: B
\* stays, send_message is called on it, and unless a write on B has failed
\* the frame is at the end of B's outbound stream.  The sweep removes the
\* connections of the reset list and leaves the others untouched.
C4_Isolation ==
    [][ServerStep =>
         /\ \A A \in Range(last'.bad) \ {ListenerToken} :
               A \in DOMAIN conns /\ A \in DOMAIN conns' /\ is_reset(conns'[A])
         /\ (last'.op # "tick" /\ ListenerToken \notin Range(last'.bad)) =>
               reset_tokens' = reset_tokens \o last'.bad
         /\ (last'.op \in {"error", "hup"} /\ last'.token # ListenerToken) =>
               /\ conns' = [conns EXCEPT ![last'.token] = mark_reset(@)]
               /\ sock' = sock
               /\ reg' = reg
         /\ last'.op \in {"error", "hup", "writable", "readable", "read"} =>
               \A B \in (DOMAIN conns) \ {last'.token} : Untouched(B)
         /\ last'.op = "frame" =>
               \A B \in (DOMAIN conns) \ Range(last'.bad) :
                  /\ B \in DOMAIN conns'
                  /\ is_reset(conns'[B]) = is_reset(conns[B])
                  /\ B # last'.token =>
                        conns'[B].read_continuation = conns[B].read_continuation
                  /\ Len(hist'[B].enq) = Len(hist[B].enq) + 1
                  /\ ~hist'[B].wfail =>
                        OutboundStream(conns', sock', B) =
                           OutboundStream(conns, sock, B) \o Encode(last'.msg)
         /\ last'.op = "tick" =>
               /\ DOMAIN conns' = (DOMAIN conns) \ Range(reset_tokens)
               /\ \A B \in DOMAIN conns' : Untouched(B)]_vars

\* A frame has been fanned out while connection A was Draining, and
\* connection B, which is not, has it on its socket.
C4_Witness ==
    /\ last.op = "frame"
    /\ \E A, B \in DOMAIN conns :
          /\ A # B
          /\ is_reset(conns[A])
          /\ ~is_reset(conns[B])
          /\ hist[B].enq # <<>>
          /\ Untagged(sock[B].sent) = Encode(last.msg)

\* Connection cur is about to read a header that declares length 0.
ZeroHeader ==
    /\ pc = "reading"
    /\ conns[cur].read_continuation = None
    /\ Len(sock[cur].rcvbuf) >= HeaderLen
    /\ read_u64(Take(sock[cur].rcvbuf, HeaderLen)) = 0

\* C5 (zero-length frames are dropped): when the 8 bytes a connection reads
\* decode to length 0, Connection::readable yields no frame; send_message is
\* called on no connection, the sender included; every outbound queue and
\* every socket's output is unchanged; and the sender is not marked
\* Draining.  Only the header leaves the receive buffer.  (Steps in which
\* the environment makes a call fail are left out.)
C5_ZeroLengthDropped ==
    [][(ServerStep /\ faults' = faults /\ ZeroHeader) =>
         /\ last'.op = "read"
         /\ last'.res = "zero"
         /\ last'.bad = <<>>
         /\ conns' = conns
         /\ hist' = hist
         /\ reset_tokens' = reset_tokens
         /\ \A t \in DOMAIN sock : sock'[t].sent = sock[t].sent
         /\ sock'[cur].rcvbuf = Drop(sock[cur].rcvbuf, HeaderLen)]_vars

\* A zero-length frame was read while two connections were in the table.
C5_Witness ==
    /\ last.op = "read"
    /\ last.res = "zero"
    /\ Cardinality(DOMAIN conns) = 2
    /\ ~is_reset(conns[last.token])

\* C6 (token uniqueness and reuse): in every reachable state each connection
\* of the table stores the token of the slot it occupies, so no two hold the
\* same token, and no two slots hold the same connection; and a slot is
\* given to a new connection only while it is free: never while its previous
\* holder is still in the table, Draining or not.  (That a token freed by
\* the sweep is assigned again is the witness.)
C6_TokenUniqueness ==
    /\ [](/\ DOMAIN conns \subseteq ConnTokens
          /\ \A t \in DOMAIN conns : conns[t].token = t
          /\ \A s, t \in DOMAIN conns :
                s # t => /\ conns[s].token # conns[t].token
                         /\ hist[s].id # hist[t].id)
    /\ [][\A t \in ConnTokens :
             hist'[t].ins > hist[t].ins => t \notin DOMAIN conns]_vars

\* A slot whose registered connection was swept holds a later connection.
C6_Witness ==
    \E t \in DOMAIN conns :
       /\ hist[t].uses = 2
       /\ hist[t].ins = 2
       /\ hist[t].id > 1
       /\ conns[t].token = t

\* The table is full.
TableFull == Cardinality(DOMAIN conns) = SlabCapacity

\* The step is the dispatch of a readable event of the listener.
AcceptStep ==
    /\ ServerStep
    /\ last'.op = "accept"
    /\ pc = "dispatch"
    /\ ListenerToken \in DOMAIN pending

FrameNumber(message) == message[1]

\* C8 (per-sender FIFO): on every connection, the frames of one sender were
\* handed to send_message in the order the sender's socket delivered them
\* (the order of their frame numbers), and the bytes written for an earlier
\* send_message call all precede those written for a later one, whatever the
\* interleaving of events and partial writes.
C8_PerSenderFifo ==
    /\ \A t \in ConnTokens :
          \A i, j \in 1..Len(hist[t].enq) :
             (i < j /\ hist[t].enq[i].from = hist[t].enq[j].from) =>
                FrameNumber(hist[t].enq[i].data) < FrameNumber(hist[t].enq[j].data)
    /\ \A t \in DOMAIN sock :
          \A i, j \in 1..Len(sock[t].sent) :
             i < j => sock[t].sent[i][1] <= sock[t].sent[j][1]

\* Two frames of one sender are both on a connection's socket, in order,
\* after one of the writes had stalled.
C8_Witness ==
    \E t \in DOMAIN sock :
       /\ Len(hist[t].enq) = 2
       /\ hist[t].enq[1].from = hist[t].enq[2].from
       /\ sock[t].sent = TaggedFrom(hist[t].enq, 1)
       /\ stalls = 1

\* The step called reset_connection for the listener token: an error or
\* hangup event for it, or its reregistration failed.
ListenerFailed ==
    /\ ServerStep
    /\ \/ last'.op \in {"error", "hup"} /\ last'.token = ListenerToken
       \/ last'.lfail

\* C9 (service-scoped versus connection-scoped failure): shutdown is
\* requested exactly by the steps in which a failure concerns the listener
\* token (its reregistration fails, or an error or hangup event arrives for
\* it); a failure of a connection's read, write or reregister never requests
\* it, and marks that connection Draining and no other.
C9_FailureScope ==
    [][/\ shutdown' = (shutdown \/ ListenerFailed)
       /\ (ServerStep /\ last'.op # "tick") =>
             \A t \in DOMAIN conns :
                /\ t \in Range(last'.bad) => t \in DOMAIN conns'
                /\ t \in DOMAIN conns' =>
                      is_reset(conns'[t]) =
                         (is_reset(conns[t]) \/ t \in Range(last'.bad))]_vars

\* The listener's reregistration failed after an accept, and shutdown is
\* requested.
C9_Witness ==
    /\ last.op = "accept"
    /\ last.lfail
    /\ shutdown
    /\ last.res = "inserted"

\* The step is the sweep.
TickStep == pc = "dispatch" /\ pc' = "poll"

\* The step removes an entry of slot t from the table: one that was there,
\* or one that the step itself inserted.
Removes(t) ==
    \/ t \in DOMAIN conns /\ t \notin DOMAIN conns'
    \/ hist'[t].ins > hist[t].ins /\ t \notin DOMAIN conns'

\* C10 as stated (deferred removal): a connection is removed from the table
\* only in the sweep; no step of event dispatch removes a table entry, a
\* failure to register a freshly accepted connection included.
C10_RemovalOnlyInSweep ==
    [][\A t \in ConnTokens : Removes(t) => TickStep]_vars

\* C10 as amended: a connection that was in the table before a step is
\* removed only by the sweep, and the sweep removes only connections of the
\* reset list; the one removal during dispatch is in Server::accept, which
\* removes at once the connection it has just inserted when registering it
\* fails.
C10_DeferredRemoval ==
    [][\A t \in ConnTokens :
          Removes(t) =>
             \/ /\ TickStep
                /\ t \in DOMAIN conns
                /\ t \in Range(reset_tokens)
                /\ is_reset(conns[t])
             \/ /\ last'.op = "accept"
                /\ last'.res = "regfail"
                /\ last'.token = t
                /\ t \notin DOMAIN conns
                /\ conns' = conns]_vars

\* The sweep has just removed a connection that had been registered.
C10_Witness ==
    /\ last.op = "tick"
    /\ \E t \in ConnTokens :
          /\ hist[t].uses = 1
          /\ hist[t].ins = 1
          /\ t \notin DOMAIN conns

\* C11 (sweep completeness): a connection is marked Draining only with its
\* token in the reset list; the sweep at the end of the tick removes exactly
\* the connections marked Draining, each once however often its token is in
\* the list, and leaves the others as they are; after it the reset list is
\* empty and no connection of the table is Draining, and so it stays until
\* the next poll hands events over.
C11_SweepCompleteness ==
    /\ [](/\ \A t \in DOMAIN conns :
                is_reset(conns[t]) => t \in Range(reset_tokens)
          /\ pc = "poll" =>
                /\ reset_tokens = <<>>
                /\ \A t \in DOMAIN conns : ~is_reset(conns[t]))
    /\ [][TickStep =>
            /\ DOMAIN conns' = {t \in DOMAIN conns : ~is_reset(conns[t])}
            /\ \A t \in DOMAIN conns' : conns'[t] = conns[t]
            /\ reset_tokens' = <<>>]_vars

\* The sweep has gone through a reset list that held one token twice, and
\* another connection is still in the table.
C11_Witness ==
    /\ last.op = "tick"
    /\ Len(last.msg) > Cardinality(Range(last.msg))
    /\ \A t \in Range(last.msg) : t \notin DOMAIN conns
    /\ conns # EmptySlab

\* C12 as stated (accept loop): handling one readable event of the listener
\* with m connections pending and at least m free slots inserts m
\* connections and empties the backlog.  (Steps in which the environment
\* makes a call fail are left out.)
C12_AcceptLoop ==
    [][(/\ AcceptStep
        /\ faults' = faults
        /\ last'.res # "nosock"
        /\ backlog <= Cardinality(FreeSlots(conns)))
       => /\ Cardinality(DOMAIN conns') = Cardinality(DOMAIN conns) + backlog
          /\ backlog' = 0]_vars

\* C12 as amended: handling one readable event of the listener calls accept
\* once: at most one pending connection leaves the backlog and at most one
\* Connection is inserted, however many are pending and however many slots
\* are free.  When accept returns a socket and a slot is free, and no call
\* fails, exactly that one connection is inserted in a free slot and
\* registered for readable, the other pending connections stay in the
\* backlog, and the listener is registered again, so that they are accepted
\* on later events.
C12_AcceptOnce ==
    [][AcceptStep =>
         /\ backlog' \in {backlog, backlog - 1}
         /\ Cardinality(DOMAIN conns') <= Cardinality(DOMAIN conns) + 1
         /\ DOMAIN conns \subseteq DOMAIN conns'
         /\ (faults' = faults /\ last'.res # "nosock" /\ ~TableFull) =>
               /\ backlog' = backlog - 1
               /\ last'.token \in FreeSlots(conns)
               /\ conns' = SlabPut(conns, last'.token,
                                   register(ConnectionNew(last'.token)))
               /\ reg' = SlabPut(SlabPut(reg, last'.token,
                                         Registration({"hup", "readable"})),
                                 ListenerToken, Registration({"readable"}))]_vars

\* One event of the listener was handled with two connections pending and
\* two slots free: one connection is in the table, the other still pending.
C12_Witness ==
    /\ last.op = "accept"
    /\ last.res = "inserted"
    /\ backlog = 1
    /\ Cardinality(DOMAIN conns) = 1
    /\ Cardinality(FreeSlots(conns)) >= 1
    /\ reg[ListenerToken].armed

\* The step ends a readable dispatch: the loop of Server::readable is left.
DrainEnd == pc = "reading" /\ pc' = "dispatch"

\* The step's read was made to fail by the environment.
ReadBroke == last'.res = "err" /\ faults' > faults

\* C13 as stated (read drain): when a readable dispatch ends, every complete
\* non-empty frame that was in the receive buffer when it began has been
\* returned by Connection::readable during it, in order, zero-length frames
\* among them or not.  (A dispatch that ends because the environment makes a
\* read fail is left out.)
C13_ReadDrain ==
    [][(DrainEnd /\ ~ReadBroke) => IsPrefix(drain.present, drain.got)]_vars

\* C13 as amended: one readable dispatch keeps reading until
\* Connection::readable returns None or an error, and a zero-length frame
\* makes it return None just as a would-block does.  So when the dispatch
\* ends, the complete frames that were in the receive buffer in front of its
\* first zero-length frame have been returned, in order; and if complete
\* non-empty frames were behind a zero-length frame, nothing else has been
\* returned and those frames are still in the receive buffer, for a later
\* readable dispatch.  (A dispatch that ends because the environment makes a
\* read fail is left out.)
C13_DrainUntilNone ==
    [][(DrainEnd /\ ~ReadBroke) =>
         /\ IsPrefix(drain.ahead, drain.got)
         /\ drain' = drain
         /\ drain.ahead # drain.present =>
               /\ drain.got = drain.ahead
               /\ last'.res \in {"zero", "rfail"}
               /\ IsPrefix(Drop(drain.present, Len(drain.ahead)),
                           NonEmpty(Frames(None, sock'[cur].rcvbuf)))]_vars

\* A readable dispatch began with a zero-length frame and a complete frame
\* behind it in the receive buffer; it has ended at the zero-length frame,
\* has returned nothing, and the frame is still in the buffer.
C13_Witness ==
    /\ last.op = "read"
    /\ last.res = "zero"
    /\ drain.present # <<>>
    /\ drain.ahead = <<>>
    /\ drain.got = <<>>
    /\ NonEmpty(Frames(None, sock[last.token].rcvbuf)) = drain.present

\* The step dispatches a readable or writable event (no error, no hangup)
\* for a connection token.
ConnEventStep == ServerStep /\ last'.op \in {"writable", "readable"}

\* C14 (Draining connections ignore readiness events): a readable or
\* writable event for a connection that is marked Draining calls neither
\* Connection::readable nor Connection::writable nor reregister: the
\* connection, its socket, every registration, the reset list and the
\* history of calls are as before, and no read loop is entered.  And when
\* the writable part of an event fails, its readable part is not run: no
\* read loop is entered, nothing is read, and the connection is not
\* registered again.
C14_DrainingIgnoresEvents ==
    [][ConnEventStep =>
         /\ is_reset(conns[last'.token]) =>
               /\ last'.res = "skipped"
               /\ conns' = conns
               /\ sock' = sock
               /\ reg' = reg
               /\ hist' = hist
               /\ reset_tokens' = reset_tokens
               /\ pc' = "dispatch"
         /\ (last'.op = "writable" /\ last'.res = "err") =>
               /\ is_reset(conns'[last'.token])
               /\ pc' = "dispatch"
               /\ sock'[last'.token].rcvbuf = sock[last'.token].rcvbuf
               /\ conns'[last'.token].read_continuation =
                     conns[last'.token].read_continuation
               /\ reg' = reg]_vars

\* A writable event was dispatched for a connection that an earlier
\* dispatch of the same tick had marked Draining; it has a queued frame and
\* was left alone.
C14_Witness ==
    /\ last.op = "writable"
    /\ last.res = "skipped"
    /\ is_reset(conns[last.token])
    /\ conns[last.token].send_queue # <<>>
    /\ ~reg[last.token].armed

\* The writable part of an event with both bits has failed.
C14_FailedWriteThenRead ==
    /\ last.op = "writable"
    /\ last.res = "err"
    /\ "readable" \in last.ev
    /\ sock[last.token].rcvbuf # <<>>

\* C15 (Draining connections are inert during fan-out and draining reads):
\* while a connection of the table is marked Draining, no step of the server
\* short of the sweep writes to or reads from its socket, calls send_message
\* on it or changes its queue, and no frame read from it is fanned out, also
\* when it was marked in the middle of its own readable dispatch.
C15_DrainingInert ==
    [][ServerStep =>
         \A t \in DOMAIN conns :
            (is_reset(conns[t]) /\ t \in DOMAIN conns') =>
               /\ sock'[t] = sock[t]
               /\ conns'[t].send_queue = conns[t].send_queue
               /\ hist'[t].enq = hist[t].enq
               /\ ~(last'.op = "frame" /\ last'.token = t)]_vars

\* A frame read from a connection that is marked Draining was fanned out.
C15_DrainingSenderBroadcast ==
    /\ last.op = "frame"
    /\ Len(drain.got) = 2
    /\ hist[last.token].wfail
    /\ Len(hist[last.token].enq) = 2
    /\ is_reset(conns[last.token])

\* The step is one call of Handler::ready.
ReadyStep == ServerStep /\ pc = "dispatch" /\ last'.op # "tick"

\* C16 (dispatch priority): Handler::ready looks at error first, then hangup,
\* then writable, then readable.  An event with the error bit is handled as
\* an error and one with the hangup bit (and no error bit) as a hangup,
\* whatever other bits it has: for a connection token that marks the
\* connection Draining, adds its token to the reset list, and neither writes
\* nor reads nor registers anything.  An event of a connection with neither
\* bit and the writable bit does its write in the first place: nothing has
\* been read when the write is done, and the read loop is entered after it
\* only if the event has the readable bit and the write has succeeded.
C16_DispatchPriority ==
    [][ReadyStep =>
         /\ "error" \in last'.ev => last'.op = "error"
         /\ ("hup" \in last'.ev /\ "error" \notin last'.ev) => last'.op = "hup"
         /\ (last'.op \in {"error", "hup"} /\ last'.token # ListenerToken) =>
               /\ conns' = [conns EXCEPT ![last'.token] = mark_reset(@)]
               /\ reset_tokens' = Append(reset_tokens, last'.token)
               /\ sock' = sock
               /\ reg' = reg
               /\ hist' = hist
               /\ pc' = "dispatch"
         /\ (last'.ev \cap {"error", "hup"} = {} /\ "writable" \in last'.ev) =>
               /\ last'.op = "writable"
               /\ sock'[last'.token].rcvbuf = sock[last'.token].rcvbuf
               /\ pc' = "reading" =>
                     "readable" \in last'.ev /\ last'.res = "ok"
         /\ last'.ev = {"readable"} =>
               last'.op \in {"readable", "accept"}]_vars

\* An event with the error, writable and readable bits was dispatched for a
\* connection that has a frame queued and bytes to read: it is Draining, and
\* nothing was written or read.
C16_Witness ==
    /\ last.op = "error"
    /\ last.ev = {"error", "readable", "writable"}
    /\ last.token \in DOMAIN conns
    /\ is_reset(conns[last.token])
    /\ conns[last.token].send_queue # <<>>
    /\ sock[last.token].rcvbuf # <<>>
    /\ pc = "dispatch"

\* The step is a call of Connection::readable that starts with a header
\* read: no read continuation is set.
HeaderReadStep ==
    /\ ServerStep
    /\ pc = "reading"
    /\ conns[cur].read_continuation = None

\* C17 (header read policy): a header read that finds nothing to read on an
\* open socket would block: Connection::readable returns no frame and no
\* error and the connections, sockets, reset list and call history are
\* unchanged.  A header read that gets fewer than 8 bytes (1 to 7 bytes, or
\* 0 bytes because the client has closed) is an error: no frame is fanned
\* out, no read continuation is set, that connection is marked Draining with
\* its token added to the reset list, and no other connection or socket
\* changes.
C17_HeaderReadPolicy ==
    [][HeaderReadStep =>
         LET n == Len(sock[cur].rcvbuf)
         IN /\ (n = 0 /\ ~sock'[cur].closed /\ faults' = faults) =>
                  /\ last'.op = "read"
                  /\ last'.res = "none"
                  /\ conns' = conns
                  /\ sock' = sock
                  /\ hist' = hist
                  /\ reset_tokens' = reset_tokens
            /\ (n < HeaderLen /\ (n > 0 \/ sock'[cur].closed)) =>
                  /\ last'.op = "read"
                  /\ last'.res = "err"
                  /\ last'.bad = <<cur>>
                  /\ conns' = [conns EXCEPT ![cur] = mark_reset(@)]
                  /\ conns'[cur].read_continuation = None
                  /\ reset_tokens' = Append(reset_tokens, cur)
                  /\ hist' = hist
                  /\ \A t \in (DOMAIN sock) \ {cur} : sock'[t] = sock[t]]_vars

\* A header read got the 3 bytes that had arrived of a frame's header: the
\* connection is Draining, another connection is not, and the rest of the
\* frame is still on its way.
C17_Witness ==
    /\ last.op = "read"
    /\ last.res = "err"
    /\ Len(sock[last.token].wire) >= HeaderLen - 3
    /\ sock[last.token].rcvbuf = <<>>
    /\ is_reset(conns[last.token])
    /\ conns[last.token].read_continuation = None
    /\ \E t \in DOMAIN conns : ~is_reset(conns[t])

\* The step is a call of Connection::readable on the connection of slot t.
ReadStepOn(t) == ServerStep /\ pc = "reading" /\ cur = t

\* C18 (read-continuation discipline): for every connection that a step
\* leaves in the table,
\*   - the read continuation goes from unset to set only in a call of
\*     Connection::readable on it that returns no frame, where the receive
\*     buffer held exactly the 8 bytes of a header declaring L > 0 (so the
\*     body read would block); the header is consumed and the continuation
\*     holds exactly L;
\*   - while it is set to L it is never set to another length, and a call
\*     of Connection::readable that returns a frame returns the first L
\*     bytes of the receive buffer and takes exactly these from it: no
\*     header is read;
\*   - it goes from set to unset exactly in the call that returns that
\*     frame, and after every call that returns a frame it is unset.
C18_ReadContinuation ==
    [][\A t \in (DOMAIN conns) \cap (DOMAIN conns') :
          LET before == conns[t].read_continuation
              after  == conns'[t].read_continuation
              buf    == sock[t].rcvbuf
          IN /\ (before = None /\ after # None) =>
                   /\ ReadStepOn(t)
                   /\ last'.op = "read"
                   /\ last'.res \in {"none", "rfail"}
                   /\ Len(buf) = HeaderLen
                   /\ read_u64(buf) > 0
                   /\ after = {read_u64(buf)}
                   /\ sock'[t].rcvbuf = <<>>
             /\ before # None =>
                   /\ after \in {before, None}
                   /\ (ReadStepOn(t) /\ last'.op = "frame") =>
                         /\ Len(last'.msg) = Unwrap(before)
                         /\ last'.msg = Take(buf, Unwrap(before))
                         /\ sock'[t].rcvbuf = Drop(buf, Unwrap(before))
                   /\ after = None <=> (ReadStepOn(t) /\ last'.op = "frame")
             /\ (ReadStepOn(t) /\ last'.op = "frame") => after = None]_vars

\* A call of Connection::readable has read the header of a frame whose
\* payload is still on its way: the continuation holds its length, and the
\* connection stays Active and registered.
C18_Witness ==
    /\ last.op = "read"
    /\ last.res = "none"
    /\ conns[last.token].read_continuation = {MaxPayloadLen}
    /\ sock[last.token].rcvbuf = <<>>
    /\ Len(sock[last.token].wire) = MaxPayloadLen
    /\ ~is_reset(conns[last.token])
    /\ reg[last.token].armed

\* Connection c has writable interest if and only if its queue is not empty.
InterestMatches(c) == ("writable" \in c.interest) <=> (c.send_queue # <<>>)

\* C19 (writable-interest bookkeeping): send_message on a connection whose
\* queue is not empty appends the buffer to the tail and leaves the socket
\* alone; and after every send_message (followed by its reregister) and
\* every writable call that succeeds, the connection has writable interest
\* if and only if its queue is not empty.
C19_WritableInterest ==
    [][/\ FrameStep =>
            \A t \in DOMAIN conns :
               /\ conns[t].send_queue # <<>> =>
                     /\ sock'[t].sent = sock[t].sent
                     /\ conns'[t].send_queue =
                           Append(conns[t].send_queue, BufferFor(t, last'.msg))
               /\ t \notin Range(last'.bad) => InterestMatches(conns'[t])
       /\ (ServerStep /\ last'.op = "writable" /\ last'.res = "ok") =>
            InterestMatches(conns'[last'.token])]_vars

\* C20 (re-arming under one-shot registration): when a tick has ended, and
\* until the next poll hands events over, every connection in the table is
\* not Draining and has a registration that is armed and whose interest is
\* the connection's current interest set: each connection that got a
\* readable or writable event, or a frame from a fan-out, and stayed Active
\* was registered again after the last change of its interest.
C20_Rearmed ==
    pc = "poll" =>
       \A t \in DOMAIN conns :
          /\ ~is_reset(conns[t])
          /\ t \in DOMAIN reg
          /\ reg[t].armed
          /\ reg[t].interest = conns[t].interest

\* A tick has ended in which a connection got writable interest from a
\* fan-out that left a frame queued on it: it is armed for writable, and so
\* is the other connection of the table for what it waits for.
C20_Witness ==
    /\ pc = "poll"
    /\ last.op = "tick"
    /\ Cardinality(DOMAIN conns) = 2
    /\ \E t \in DOMAIN conns :
          /\ conns[t].send_queue # <<>>
          /\ "writable" \in reg[t].interest
          /\ reg[t].armed
          /\ hist[t].enq # <<>>

\* Frame n of slot t's connection is on its socket in full: header and
\* payload.
WrittenInFull(t, n) ==
    /\ t \in DOMAIN sock
    /\ n <= Len(hist[t].enq)
    /\ Untagged(SelectSeq(sock[t].sent, LAMBDA x : x[1] = n)) =
          Encode(hist[t].enq[n].data)

\* Slot t's connection has nothing left to write and no writable interest.
Drained(t) ==
    /\ t \in DOMAIN conns
    /\ conns[t].send_queue = <<>>
    /\ "writable" \notin conns[t].interest
    /\ \A n \in 1..Len(hist[t].enq) : WrittenInFull(t, n)

\* Slot t's connection is gone or marked Draining.
Given_up(t) == t \notin DOMAIN conns \/ is_reset(conns[t])

\* C21 (outbound drain liveness): without I/O errors, when the event loop
\* keeps running its handlers and every armed registration that is ready is
\* eventually reported, every frame send_message was called with on a
\* connection is eventually on its socket in full unless the connection is
\* marked Draining; and once k frames were sent to a connection, either a
\* further frame is sent to it, or it is marked Draining, or its queue
\* becomes empty with all k frames written and writable interest removed.
C21_OutboundDrain ==
    \A t \in ConnTokens : \A k \in 1..MaxFrames :
       /\ (t \in DOMAIN conns /\ Len(hist[t].enq) >= k)
             ~> (Given_up(t) \/ WrittenInFull(t, k))
       /\ (t \in DOMAIN conns /\ Len(hist[t].enq) = k)
             ~> (Given_up(t) \/ Len(hist[t].enq) > k \/ Drained(t))

\* A writable dispatch has just written the rest of a frame whose first
\* write had stalled: the queue is empty and writable interest is gone.
C21_Witness ==
    /\ last.op = "writable"
    /\ last.res = "ok"
    /\ last.msg # <<>>
    /\ stalls > 0
    /\ faults = 0
    /\ Drained(last.token)

\* The operations Handler::ready runs for an event.
ReadyOps == {"accept", "error", "hup", "writable", "readable"}

\* C22 (listener sentinel and dispatch assertions): the listener's token is
\* 1 and the slab's tokens start at 2, so every connection in the table
\* holds its slot's token, which is neither 0 nor the listener's; the
\* listener is registered with readable interest only, at every poll; and
\* every event Handler::ready was called with has a token other than 0 and,
\* if it is a writable event, a token other than the listener's.
C22_ListenerSentinel ==
    /\ ListenerToken = 1
    /\ \A t \in ConnTokens : t >= 2
    /\ \A t \in DOMAIN conns :
          /\ t \in ConnTokens
          /\ conns[t].token = t
          /\ t \notin {0, ListenerToken}
    /\ ListenerToken \in DOMAIN reg => reg[ListenerToken].interest = {"readable"}
    /\ \A t \in DOMAIN pending :
          /\ t # 0
          /\ t = ListenerToken => pending[t].interest = {"readable"}
          /\ t # ListenerToken => t \in DOMAIN conns
    /\ last.op \in ReadyOps =>
          /\ last.token # 0
          /\ "writable" \in last.ev => last.token # ListenerToken

\* A writable event was dispatched to a connection while the listener's
\* event of the same poll is still to be dispatched.
C22_Witness ==
    /\ last.op = "writable"
    /\ "writable" \in last.ev
    /\ last.token \in DOMAIN conns
    /\ ListenerToken \in DOMAIN pending

\* C23 (hangup detection is always on): a connection is constructed with
\* hangup interest and register adds readable to it; every connection in
\* the table has hangup and readable interest after every step, appears in
\* the table with exactly these two, and no step changes any bit of a
\* connection's interest other than writable.
C23_HangupAlwaysOn ==
    [][/\ \A t \in ConnTokens :
             /\ ConnectionNew(t).interest = {"hup"}
             /\ register(ConnectionNew(t)).interest = {"hup", "readable"}
       /\ \A t \in DOMAIN conns' :
             /\ {"hup", "readable"} \subseteq conns'[t].interest
             /\ conns'[t].interest \subseteq {"hup", "readable", "writable"}
       /\ \A t \in (DOMAIN conns') \ DOMAIN conns :
             conns'[t].interest = {"hup", "readable"}
       /\ \A t \in (DOMAIN conns') \cap DOMAIN conns :
             conns'[t].interest \ {"writable"} = conns[t].interest \ {"writable"}
      ]_vars

\* A writable dispatch has just emptied the queue of a connection that had
\* writable interest: the bit was added and is removed again, hangup and
\* readable stay.
C23_Witness ==
    /\ last.op = "writable"
    /\ last.res = "ok"
    /\ last.msg # <<>>
    /\ last.token \in DOMAIN conns
    /\ conns[last.token].interest = {"hup", "readable"}
    /\ conns[last.token].send_queue = <<>>
    /\ Len(hist[last.token].enq) = MaxFrames

\* The buffers whose bytes are on the socket of the monolithic handler
\* appear there in the order of their queue_message calls.
MainInQueueOrder(sent) ==
    \A i, j \in 1..Len(sent) : i < j => sent[i][1] <= sent[j][1]

\* The last call was a writable whose write reported would-block or an
\* error.
MainWriteFailed(l) ==
    l.op = "writable" /\ l.buf # NoBuf /\ l.res \in {"wouldblock", "err"}

\* C24 (outbound order in the monolithic main.rs handler): the messages
\* queued by queue_message are written to the socket by successive writable
\* dispatches in the order they were queued, and a message whose write
\* reports would-block or an error is still in the queue after the
\* dispatch.
C24_MainOutboundOrder ==
    [][/\ MainInQueueOrder(main_sent')
       /\ MainWriteFailed(main_last') =>
             \E i \in 1..Len(main_conn'.send_queue) :
                main_conn'.send_queue[i] = main_last'.buf
      ]_main_vars

\* What is on slot t's socket of the buffer of send_message call n.
SentOf(t, n) == Untagged(SelectSeq(sock[t].sent, LAMBDA x : x[1] = n))

\* C25 (write-continuation invariant): on every connection not marked
\* Draining, while write_continuation is set the queue is not empty, the
\* header of the frame its first buffer belongs to is on the socket in
\* full, and that buffer is exactly the rest of the frame: what is on the
\* socket of the frame followed by the buffer is the frame's header and
\* payload.  So send_message finds the queue non-empty while a write
\* continuation is pending; and of every frame sent to the connection the
\* socket holds a prefix of header then payload, the header once.
C25_WriteContinuation ==
    \A t \in DOMAIN conns :
       ~is_reset(conns[t]) =>
          /\ conns[t].write_continuation =>
                /\ conns[t].send_queue # <<>>
                /\ Head(conns[t].send_queue).n \in 1..Len(hist[t].enq)
                /\ Len(SentOf(t, Head(conns[t].send_queue).n)) >= HeaderLen
                /\ SentOf(t, Head(conns[t].send_queue).n)
                      \o Head(conns[t].send_queue).data
                   = Encode(hist[t].enq[Head(conns[t].send_queue).n].data)
          /\ \A n \in 1..Len(hist[t].enq) :
                IsPrefix(SentOf(t, n), Encode(hist[t].enq[n].data))

\* A frame is sent to a connection whose write continuation is pending:
\* the header and part of the payload of an earlier frame are out, the rest
\* is the first buffer of the queue, and the new frame is queued behind it.
C25_Witness ==
    /\ last.op = "frame"
    /\ \E t \in DOMAIN conns :
          /\ ~is_reset(conns[t])
          /\ conns[t].write_continuation
          /\ Len(conns[t].send_queue) = 2
          /\ Len(SentOf(t, 1)) > HeaderLen
          /\ Len(Head(conns[t].send_queue).data) < Len(hist[t].enq[1].data)

\* The step is a writable event on a connection that is not marked
\* Draining: Handler::ready calls Connection::writable.
WritableCall ==
    /\ ServerStep
    /\ last'.op = "writable"
    /\ last'.token \in DOMAIN conns
    /\ ~already_reset(conns, last'.token)

\* C26 (no spurious write failure): the readiness source reports a writable
\* event only for a registration that holds writable interest; then every
\* call of Connection::writable finds a buffer in the queue, and no
\* connection is marked Draining by a writable call that wrote nothing and
\* met no fault.
C26_NoSpuriousWriteFailure ==
    [][WritableCall =>
         /\ conns[last'.token].send_queue # <<>>
         /\ "writable" \in pending[last'.token].interest
         /\ "writable" \in conns[last'.token].interest
         /\ last'.res = "err" => faults' > faults]_vars

\* A writable call wrote the rest of a stalled frame and left a later
\* frame, queued by a fan-out in between, for the next writable event.
C26_Witness ==
    /\ last.op = "writable"
    /\ last.res = "ok"
    /\ last.msg # <<>>
    /\ last.token \in DOMAIN conns
    /\ Len(conns[last.token].send_queue) = 1
    /\ "writable" \in conns[last.token].interest
    /\ ~conns[last.token].write_continuation

\* How many times token t is in the reset list.
TimesReset(t) == Cardinality({i \in 1..Len(reset_tokens) : reset_tokens[i] = t})

\* C27 (lookup safety): every token find_connection_by_token is called with
\* names an occupied slot.  Every event still to be dispatched is for the
\* listener or for a connection in the table, and so is every registration
\* the readiness source holds, so that no event comes for a slot the sweep
\* has freed; the connection Server::readable is reading is in the table at
\* every iteration; the connection of the event Handler::ready has just
\* handled, also of an error or hangup event for a connection that was
\* already marked Draining, is in the table, and so is every connection it
\* reset; and the listener's token is never in the table.
C27_LookupSafety ==
    /\ ListenerToken \notin DOMAIN conns
    /\ \A t \in DOMAIN pending : t = ListenerToken \/ t \in DOMAIN conns
    /\ \A t \in DOMAIN reg : t = ListenerToken \/ t \in DOMAIN conns
    /\ DOMAIN sock = DOMAIN conns
    /\ pc = "reading" => cur \in DOMAIN conns
    /\ last.op \in {"error", "hup", "writable", "readable", "frame", "read"} =>
          /\ last.token = ListenerToken \/ last.token \in DOMAIN conns
          /\ last.op \notin {"error", "hup"} => last.token \in DOMAIN conns
          /\ \A i \in 1..Len(last.bad) :
                last.bad[i] = last.token \/ last.bad[i] \in DOMAIN conns
    /\ \A i \in 1..Len(reset_tokens) : reset_tokens[i] \in DOMAIN conns

\* A hangup event was handled for a connection that a fan-out in the same
\* batch had already marked Draining: the lookup found it in the table.
C27_Witness ==
    /\ last.op = "hup"
    /\ last.token \in DOMAIN conns
    /\ is_reset(conns[last.token])
    /\ TimesReset(last.token) = 2

\* Slot t's connection was sent frame g before frame f.
SentBefore(t, g, f) ==
    \E k, l \in 1..Len(hist[t].enq) :
       k < l /\ hist[t].enq[k] = g /\ hist[t].enq[l] = f

\* Slot t's outbound stream, the bytes written followed by the buffers
\* queued, carries the buffers of its send_message calls in call order.
InCallOrder(t) ==
    /\ \A i \in 1..(Len(sock[t].sent) - 1) :
          sock[t].sent[i][1] <= sock[t].sent[i + 1][1]
    /\ \A i \in 1..(Len(conns[t].send_queue) - 1) :
          conns[t].send_queue[i].n <= conns[t].send_queue[i + 1].n
    /\ (sock[t].sent # <<>> /\ conns[t].send_queue # <<>>) =>
          sock[t].sent[Len(sock[t].sent)][1] <= conns[t].send_queue[1].n

\* C28 (uniform broadcast order): one iteration of Server::readable sends
\* its frame to every connection before the next frame is read, so any two
\* frames that were both sent to two connections of the table were sent to
\* both in the same order; and every connection's outbound stream, written
\* then queued, carries the buffers of its send_message calls in the order
\* of the calls.
C28_UniformBroadcastOrder ==
    /\ \A t \in DOMAIN conns : InCallOrder(t)
    /\ \A t, u \in DOMAIN conns :
          \A i, j \in 1..Len(hist[t].enq) :
             i < j => ~SentBefore(u, hist[t].enq[j], hist[t].enq[i])

\* Two frames from two senders were sent to two connections; one of them
\* has written both, the other has the first partly written and the second
\* queued behind it.
C28_Witness ==
    \E t, u \in DOMAIN conns :
       /\ t # u
       /\ Len(hist[t].enq) = 2
       /\ hist[u].enq = hist[t].enq
       /\ hist[t].enq[1].from # hist[t].enq[2].from
       /\ conns[u].send_queue = <<>>
       /\ Len(conns[t].send_queue) = 2
       /\ sock[t].sent # <<>>
       /\ ~hist[t].wfail /\ ~hist[u].wfail

=============================================================================
